---- MODULE Spec2Model ----
(***************************************************************************)
(* State-machine model of aiohttp's PayloadWriter (aiohttp/http_message.py) *)
(* and UrlDispatcher (aiohttp/web_urldispatcher.py).                        *)
(*                                                                         *)
(* Bytes are one-character strings, a bytes object is a sequence of them.  *)
(* Every coroutine is cut at its suspension points (yield from); the code  *)
(* between two suspension points runs as one atomic action, as it does on  *)
(* a single-threaded event loop.                                           *)
(***************************************************************************)
EXTENDS Integers, Sequences, FiniteSets, TLC

VARIABLES
    writer,     \* the PayloadWriter's fields
    stream,     \* the connection (stream + transport) the writer is bound to
    pc,         \* pc[t]: where caller task t is suspended inside the writer
    log,        \* history: the API calls made, in call order
    accepted,   \* history: bytes passed to _write / buffer_data, in call order
    ncalls,     \* history: number of API calls made
    last,       \* history: the step just taken
    late,       \* history: an operation ran after write_eof had been called
    router,     \* the UrlDispatcher's fields
    routes,     \* the Route objects built by add_route / add_static
    answer,     \* result of the last registration or resolve call
    static,     \* one run of StaticRoute.handle: its locals and its effects
    multidict   \* a multidict object, and the last call made on it

writerVars == <<writer, stream, pc, log, accepted, ncalls, last, late>>
routerVars == <<router, routes, answer>>
staticVars == <<static>>
dictVars == <<multidict>>
vars == <<writer, stream, pc, log, accepted, ncalls, last, late,
          router, routes, answer, static, multidict>>

-----------------------------------------------------------------------------
(* Bounds of the model *)

\* API calls (write, buffer_data, drain, write_eof) made in one run
MaxCalls == 3
\* largest Content-Length budget tried
MaxLength == 3
\* the threshold passed as write(..., LIMIT=...), scaled down from 64 KiB
SmallLimit == 4

\* self.length = None
NoLength == -1

\* the caller tasks; they are interchangeable, so a new call is always made by
\* the lowest-numbered task that is not inside the writer
Tasks == {1, 2}

Hi == <<"h", "i">>
Hello == <<"h", "e", "l", "l", "o">>
Headers == <<"H", ":">>
Chunks == {<<>>, Hi, Hello}
EofChunks == {<<>>, Hi}
\* (drain, LIMIT) arguments of write()
WriteOptions == {<<TRUE, SmallLimit>>, <<FALSE, SmallLimit>>}
\* Content-Length budgets tried
Lengths == {MaxLength}

CRLF == <<"\r", "\n">>

-----------------------------------------------------------------------------
(* bytes helpers *)

Take(s, n) == SubSeq(s, 1, n)

IsPrefix(s, t) == Len(s) <= Len(t) /\ SubSeq(t, 1, Len(s)) = s

\* b''.join(chunks)
RECURSIVE Flatten(_)
Flatten(chunks) ==
    IF chunks = <<>> THEN <<>> ELSE Head(chunks) \o Flatten(Tail(chunks))

HexDigits == <<"0", "1", "2", "3", "4", "5", "6", "7",
               "8", "9", "a", "b", "c", "d", "e", "f">>

\* '%x' % n
RECURSIVE Hex(_)
Hex(n) ==
    IF n < 16 THEN <<HexDigits[n + 1]>>
    ELSE Hex(n \div 16) \o <<HexDigits[(n % 16) + 1]>>

\* faulty variant: the size line counts the trailing CRLF
ChunkFrame_counts_crlf(chunk) ==
    Hex(Len(chunk) + 2) \o CRLF \o chunk \o CRLF

\* ('%x\r\n' % len(chunk)).encode('ascii') + chunk + b'\r\n'
ChunkFrame(chunk) == Hex(Len(chunk)) \o CRLF \o chunk \o CRLF

\* b'0\r\n\r\n'
Terminator == <<"0">> \o CRLF \o CRLF

-----------------------------------------------------------------------------
(* zlib compressobj: compress() may keep its input for later or emit a     *)
(* block for everything it holds; flush() emits what is held followed by   *)
(* the end-of-stream marker and is never empty.  After flush() the object *)
(* is finished: another compress() or flush() raises zlib.error.           *)

Deflate(data) == IF data = <<>> THEN <<>> ELSE <<"z">> \o data

ZCompress(z, chunk) ==
    LET held == z.pending \o chunk IN
    { [state |-> [z EXCEPT !.pending = held], out |-> <<>>],
      [state |-> [z EXCEPT !.pending = <<>>], out |-> Deflate(held)] }

ZFlush(z) ==
    [state |-> [z EXCEPT !.pending = <<>>, !.finished = TRUE],
     out |-> Deflate(z.pending) \o <<"$">>]

\* the compressor's answers a call may see (one dummy answer when it is off
\* or finished)
ZChoices(w, chunk) ==
    IF w._compress.on /\ ~w._compress.finished /\ chunk # <<>>
    THEN ZCompress(w._compress, chunk)
    ELSE {[state |-> w._compress, out |-> <<>>]}

-----------------------------------------------------------------------------
(* PayloadWriter methods, as functions of the writer record w.  `out` is   *)
(* what the method hands to transport.write (<<>>: no call).               *)

\* PayloadWriter.__init__
NewWriter(available) ==
    [_transport |-> IF available THEN "transport" ELSE "None",
     length |-> NoLength,
     chunked |-> FALSE,
     buffer_size |-> 0,
     output_size |-> 0,
     _eof |-> FALSE,
     _buffer |-> <<>>,
     _compress |-> [on |-> FALSE, pending |-> <<>>, finished |-> FALSE],
     _drain_waiter |-> "None"]

enable_chunking(w) == [w EXCEPT !.chunked = TRUE]

enable_compression(w) ==
    [w EXCEPT !._compress = [on |-> TRUE, pending |-> <<>>,
                             finished |-> FALSE]]

\* compress() and flush() of the writer's compressor raise zlib.error
ZFinished(w) == w._compress.on /\ w._compress.finished

buffer_data(w, chunk) ==
    IF chunk # <<>>
    THEN [w EXCEPT !.buffer_size = @ + Len(chunk),
                   !.output_size = @ + Len(chunk),
                   !._buffer = Append(@, chunk)]
    ELSE w

\* faulty variant: without a transport the chunk is queued in front
_write_prepend(w, chunk) ==
    LET w1 == [w EXCEPT !.buffer_size = @ + Len(chunk),
                        !.output_size = @ + Len(chunk)]
    IN  IF w._transport # "None"
        THEN IF w._buffer # <<>>
             THEN [w |-> [w1 EXCEPT !._buffer = <<>>],
                   out |-> Flatten(Append(w._buffer, chunk))]
             ELSE [w |-> w1, out |-> chunk]
        ELSE [w |-> [w1 EXCEPT !._buffer = <<chunk>> \o @], out |-> <<>>]

_write(w, chunk) ==
    LET w1 == [w EXCEPT !.buffer_size = @ + Len(chunk),
                        !.output_size = @ + Len(chunk)]
    IN  IF w._transport # "None"
        THEN IF w._buffer # <<>>
             THEN [w |-> [w1 EXCEPT !._buffer = <<>>],
                   out |-> Flatten(Append(w._buffer, chunk))]
             ELSE [w |-> w1, out |-> chunk]
        ELSE [w |-> [w1 EXCEPT !._buffer = Append(@, chunk)], out |-> <<>>]

\* faulty variant: a truncating write leaves the budget as it was
ClampLength_keeps_budget(w, chunk) ==
    IF w.length = NoLength THEN [w |-> w, chunk |-> chunk]
    ELSE IF w.length >= Len(chunk)
         THEN [w |-> [w EXCEPT !.length = @ - Len(chunk)], chunk |-> chunk]
         ELSE [w |-> w, chunk |-> Take(chunk, w.length)]

\* the length clamp of write(): [w, chunk] after lines 128-134
ClampLength(w, chunk) ==
    IF w.length = NoLength THEN [w |-> w, chunk |-> chunk]
    ELSE IF w.length >= Len(chunk)
         THEN [w |-> [w EXCEPT !.length = @ - Len(chunk)], chunk |-> chunk]
         ELSE [w |-> [w EXCEPT !.length = 0], chunk |-> Take(chunk, w.length)]

\* faulty variant: the threshold itself already triggers
DrainTriggered_at_limit(buffer_size, limit, drainflag) ==
    buffer_size >= limit /\ drainflag

\* the threshold test of write(): does this call trigger the drain protocol
DrainTriggered(buffer_size, limit, drainflag) ==
    buffer_size > limit /\ drainflag

\* write(chunk, drain=..., LIMIT=...); z is the compressor's answer.
\* ret: "drain" (the drain coroutine is returned), "noop" or "zlib.error"
\*      (compress() raised)
\* framed: the bytes passed to _write (<<>>: _write was not called)
\* size: buffer_size when the call returned or, if it got that far, when it
\*       was compared with the threshold
write(w, chunk, drainflag, limit, z) ==
    LET c1 == IF w._compress.on THEN z.out ELSE chunk
        w1 == IF w._compress.on THEN [w EXCEPT !._compress = z.state] ELSE w
        noop(ww) == [w |-> ww, out |-> <<>>, ret |-> "noop",
                     framed |-> <<>>, size |-> ww.buffer_size]
    IN  IF ZFinished(w)
        THEN [noop(w) EXCEPT !.ret = "zlib.error"]
        ELSE IF w._compress.on /\ c1 = <<>> THEN noop(w1)
        ELSE LET cl == ClampLength(w1, c1) IN
             IF cl.chunk = <<>> THEN noop(cl.w)
             ELSE LET c3 == IF cl.w.chunked THEN ChunkFrame(cl.chunk)
                                             ELSE cl.chunk
                      r == _write(cl.w, c3)
                      trig == DrainTriggered(r.w.buffer_size, limit, drainflag)
                  IN  [w |-> IF trig THEN [r.w EXCEPT !.buffer_size = 0]
                                     ELSE r.w,
                       out |-> r.out,
                       ret |-> IF trig THEN "drain" ELSE "noop",
                       framed |-> c3,
                       size |-> r.w.buffer_size]

\* faulty variant: write_eof does not look at _eof
eof_guard_missing(w) == FALSE

\* the guard of write_eof: a finalized writer returns at once
eof_guard(w) == w._eof

\* faulty variant: the writer is marked finalized before the drain
write_eof_buffer_finalizes(w, chunk, z) ==
    LET fl == ZFlush(IF chunk # <<>> THEN z.state ELSE w._compress)
        c1 == IF w._compress.on
              THEN (IF chunk # <<>> THEN z.out ELSE <<>>) \o fl.out
              ELSE chunk
        w1 == IF w._compress.on THEN [w EXCEPT !._compress = fl.state] ELSE w
        c2 == IF w.chunked
              THEN IF c1 # <<>>
                   THEN Hex(Len(c1)) \o CRLF \o c1 \o CRLF \o Terminator
                   ELSE IF w._compress.on THEN c1 ELSE Terminator
              ELSE c1
    IN  IF ZFinished(w) THEN [w |-> w, framed |-> <<>>, raised |-> TRUE]
        ELSE [w |-> [buffer_data(w1, c2) EXCEPT !._eof = TRUE],
              framed |-> c2, raised |-> FALSE]

\* faulty variant: no terminator after the chunk of compressed output
write_eof_buffer_no_terminator(w, chunk, z) ==
    LET fl == ZFlush(IF chunk # <<>> THEN z.state ELSE w._compress)
        c1 == IF w._compress.on
              THEN (IF chunk # <<>> THEN z.out ELSE <<>>) \o fl.out
              ELSE chunk
        w1 == IF w._compress.on THEN [w EXCEPT !._compress = fl.state] ELSE w
        c2 == IF w.chunked
              THEN IF c1 # <<>>
                   THEN IF w._compress.on
                        THEN Hex(Len(c1)) \o CRLF \o c1 \o CRLF
                        ELSE Hex(Len(c1)) \o CRLF \o c1 \o CRLF \o Terminator
                   ELSE IF w._compress.on THEN c1 ELSE Terminator
              ELSE c1
    IN  IF ZFinished(w) THEN [w |-> w, framed |-> <<>>, raised |-> TRUE]
        ELSE [w |-> buffer_data(w1, c2), framed |-> c2, raised |-> FALSE]

\* write_eof(chunk), lines 156-173: the trailing chunk is compressed, framed
\* and buffered; raised: the compressor was finished and raised zlib.error
write_eof_buffer(w, chunk, z) ==
    LET fl == ZFlush(IF chunk # <<>> THEN z.state ELSE w._compress)
        c1 == IF w._compress.on
              THEN (IF chunk # <<>> THEN z.out ELSE <<>>) \o fl.out
              ELSE chunk
        w1 == IF w._compress.on THEN [w EXCEPT !._compress = fl.state] ELSE w
        c2 == IF w.chunked
              THEN IF c1 # <<>>
                   THEN Hex(Len(c1)) \o CRLF \o c1 \o CRLF \o Terminator
                   ELSE IF w._compress.on THEN c1 ELSE Terminator
              ELSE c1
    IN  IF ZFinished(w) THEN [w |-> w, framed |-> <<>>, raised |-> TRUE]
        ELSE [w |-> buffer_data(w1, c2), framed |-> c2, raised |-> FALSE]

\* faulty variant: every drain without a transport makes a future of its own
drain_new_waiter(w, lastflag) ==
    IF w._transport # "None"
    THEN [w |-> IF w._buffer # <<>> /\ ~lastflag
                THEN [w EXCEPT !._buffer = <<>>] ELSE w,
          out |-> Flatten(w._buffer),
          susp |-> "stream",
          created |-> FALSE]
    ELSE [w |-> [w EXCEPT !._drain_waiter = "pending"],
          out |-> <<>>,
          susp |-> "waiter",
          created |-> TRUE]

\* drain(last) up to its suspension point.
\* susp: "stream" (suspended in stream.drain()), "waiter" (suspended on
\* _drain_waiter) or "raise" (the waiter in the slot is already cancelled,
\* so awaiting it raises CancelledError at once)
\* created: create_future was called and its result put in the slot
drain(w, lastflag) ==
    IF w._transport # "None"
    THEN [w |-> IF w._buffer # <<>> /\ ~lastflag
                THEN [w EXCEPT !._buffer = <<>>] ELSE w,
          out |-> Flatten(w._buffer),
          susp |-> "stream",
          created |-> FALSE]
    ELSE [w |-> IF w._drain_waiter = "None"
                THEN [w EXCEPT !._drain_waiter = "pending"] ELSE w,
          out |-> <<>>,
          susp |-> IF w._drain_waiter = "cancelled" THEN "raise" ELSE "waiter",
          created |-> w._drain_waiter = "None"]

\* faulty variant: the waiter is resolved but the queue is not written out
set_transport_no_flush(w) ==
    [w |-> [w EXCEPT !._transport = "transport",
                     !._drain_waiter = "None"],
     out |-> <<>>,
     resolved |-> w._drain_waiter = "pending"]

\* set_transport(transport); resolved: waiter.set_result(None) was called
set_transport(w) ==
    [w |-> [w EXCEPT !._transport = "transport",
                     !._buffer = <<>>,
                     !._drain_waiter = "None"],
     out |-> Flatten(w._buffer),
     resolved |-> w._drain_waiter = "pending"]

\* faulty variant: the transport reference is kept
finalize_keeps_transport(w) == [w EXCEPT !._eof = TRUE]

\* write_eof after its drain returned, lines 177-179
finalize(w) == [w EXCEPT !._eof = TRUE, !._transport = "None"]

-----------------------------------------------------------------------------
(* The connection.  The stream class is not part of the modelled sources:  *)
(* it hands its transport to a writer registered with acquire() once, by   *)
(* calling set_transport, and counts drain() and release() calls.          *)

\* stream as PayloadWriter.__init__ leaves it (acquire=True): the writer takes
\* the transport if it is available and registers with acquire() if not
NewStream(available) ==
    [acquired |-> ~available,
     wire |-> <<>>,
     drains |-> 0,
     released |-> 0]

\* stream.release() hands the transport to the writer that acquired it
StreamCanAttach == stream.acquired /\ writer._transport = "None" /\ ~writer._eof

transport_write(s, data) == [s EXCEPT !.wire = @ \o data]

stream_drain(s) == [s EXCEPT !.drains = @ + 1]

stream_release(s) == [s EXCEPT !.released = @ + 1]

-----------------------------------------------------------------------------
(* history *)

\* the step just taken: op is "write", "cancel" (a task was cancelled),
\* "raise" (a drain failed at once on a cancelled waiter) or "other"; for a
\* write: the calling task, what it returned, whether it called _write, and
\* the operands of its threshold test
Step(op, t, ret, wrote, size, limit, drainflag) ==
    [op |-> op, task |-> t, ret |-> ret, wrote |-> wrote, size |-> size,
     limit |-> limit, drain |-> drainflag]

Plain(op) == Step(op, 0, "-", FALSE, 0, 0, FALSE)

EofCalled == \E i \in 1..Len(log) : log[i].op = "write_eof"

\* where a task is suspended: on the future in the waiter slot (_waiter), on
\* that future once resolved (_ready), in stream.drain() (_stream), or on a
\* future that another one has replaced in the slot (_replaced)
Suspended == {"drain_waiter", "drain_stream", "drain_ready", "drain_replaced",
              "eof_waiter", "eof_stream", "eof_ready", "eof_replaced"}

-----------------------------------------------------------------------------
(* Writer specification *)

\* no handler of a static route is running
StaticIdle == static = [pc |-> "idle"]

\* no multidict has been built
DictIdle == multidict = [cls |-> "none"]

RouterIdle ==
    /\ router = [_resources |-> <<>>, _named_resources |-> {}]
    /\ routes = <<>>
    /\ answer = [op |-> "none", kind |-> "ok"]
    /\ StaticIdle
    /\ DictIdle

WriterInit ==
    /\ \E available \in BOOLEAN :
          /\ writer = NewWriter(available)
          /\ stream = NewStream(available)
    /\ pc = [t \in Tasks |-> "idle"]
    /\ log = <<>>
    /\ accepted = <<>>
    /\ ncalls = 0
    /\ last = Plain("other")
    /\ late = FALSE

Init == WriterInit /\ RouterIdle

\* configuration, done by the response before the first body byte
BeforeBody == ncalls = 0

EnableChunking ==
    /\ UNCHANGED <<routerVars, staticVars, dictVars>>
    /\ BeforeBody /\ ~writer.chunked
    /\ writer' = enable_chunking(writer)
    /\ last' = Plain("other")
    /\ UNCHANGED <<stream, pc, log, accepted, ncalls, late>>

EnableCompression ==
    /\ UNCHANGED <<routerVars, staticVars, dictVars>>
    /\ BeforeBody /\ ~writer._compress.on
    /\ writer' = enable_compression(writer)
    /\ last' = Plain("other")
    /\ UNCHANGED <<stream, pc, log, accepted, ncalls, late>>

SetLength ==
    /\ UNCHANGED <<routerVars, staticVars, dictVars>>
    /\ BeforeBody /\ writer.length = NoLength
    /\ \E n \in Lengths : writer' = [writer EXCEPT !.length = n]
    /\ last' = Plain("other")
    /\ UNCHANGED <<stream, pc, log, accepted, ncalls, late>>

\* the common end of an API call made by task t
Called(t, op, chunk, runs) ==
    /\ pc[t] = "idle"
    /\ \A u \in Tasks : u < t => pc[u] # "idle"
    /\ ncalls < MaxCalls
    /\ ncalls' = ncalls + 1
    /\ log' = Append(log, [op |-> op, chunk |-> chunk])
    /\ late' = (late \/ (runs /\ EofCalled))

\* task t starts the coroutine drain(lastflag): its code up to the suspension
Suspend(t, w, s, lastflag, kind) ==
    LET d == drain(w, lastflag)
        s1 == transport_write(s, d.out)
    IN  /\ writer' = d.w
        /\ stream' = IF d.susp = "stream" THEN stream_drain(s1) ELSE s1
        /\ pc' = [u \in Tasks |->
                     IF u = t
                     THEN (IF d.susp = "raise" THEN "idle"
                           ELSE kind \o "_" \o d.susp)
                     ELSE IF d.created /\ w._drain_waiter = "pending"
                     THEN (IF pc[u] = "drain_waiter" THEN "drain_replaced"
                           ELSE IF pc[u] = "eof_waiter" THEN "eof_replaced"
                           ELSE pc[u])
                     ELSE pc[u]]
        /\ last' = Plain(IF d.susp = "raise" THEN "raise" ELSE "other")

Write(t) ==
    \E chunk \in Chunks, opt \in WriteOptions :
    \E z \in ZChoices(writer, chunk) :
        LET drainflag == opt[1]
            limit == opt[2]
            r == write(writer, chunk, drainflag, limit, z)
        IN
        /\ UNCHANGED <<routerVars, staticVars, dictVars>>
        /\ Called(t, "write", chunk, TRUE)
        /\ writer' = r.w
        /\ stream' = transport_write(stream, r.out)
        /\ accepted' = accepted \o r.framed
        /\ pc' = [pc EXCEPT ![t] = IF r.ret = "drain" THEN "write_ret"
                                   ELSE "idle"]
        /\ last' = Step("write", t, r.ret, r.framed # <<>>, r.size, limit, drainflag)

\* the caller awaits the drain coroutine write() returned ...
AwaitDrain(t) ==
    /\ UNCHANGED <<routerVars, staticVars, dictVars>>
    /\ pc[t] = "write_ret"
    /\ Suspend(t, writer, stream, FALSE, "drain")
    /\ late' = (late \/ EofCalled)
    /\ UNCHANGED <<log, accepted, ncalls>>

\* ... or drops it
DropDrain(t) ==
    /\ UNCHANGED <<routerVars, staticVars, dictVars>>
    /\ pc[t] = "write_ret"
    /\ pc' = [pc EXCEPT ![t] = "idle"]
    /\ last' = Plain("other")
    /\ UNCHANGED <<writer, stream, log, accepted, ncalls, late>>

\* buffer_data(chunk): how the response hands the header block to the writer,
\* before the first body byte
BufferData(t) ==
    /\ UNCHANGED <<routerVars, staticVars, dictVars>>
    /\ BeforeBody
    /\ Called(t, "buffer_data", Headers, TRUE)
    /\ writer' = buffer_data(writer, Headers)
    /\ accepted' = accepted \o Headers
    /\ last' = Plain("other")
    /\ UNCHANGED <<stream, pc>>

Drain(t) ==
    /\ UNCHANGED <<routerVars, staticVars, dictVars>>
    /\ Called(t, "drain", <<>>, TRUE)
    /\ Suspend(t, writer, stream, FALSE, "drain")
    /\ UNCHANGED accepted

WriteEof(t) ==
    \E chunk \in EofChunks :
    \E z \in ZChoices(writer, chunk) :
        /\ UNCHANGED <<routerVars, staticVars, dictVars>>
        /\ Called(t, "write_eof", chunk, ~eof_guard(writer))
        /\ IF eof_guard(writer)
           THEN /\ last' = Plain("other")
                /\ UNCHANGED <<writer, stream, pc, accepted>>
           ELSE LET b == write_eof_buffer(writer, chunk, z) IN
                IF b.raised
                THEN /\ last' = Step("raise", t, "zlib.error", FALSE, 0, 0,
                                     FALSE)
                     /\ UNCHANGED <<writer, stream, pc, accepted>>
                ELSE /\ accepted' = accepted \o b.framed
                     /\ Suspend(t, b.w, stream, TRUE, "eof")

SetTransport ==
    LET r == set_transport(writer) IN
    /\ UNCHANGED <<routerVars, staticVars, dictVars>>
    /\ StreamCanAttach
    /\ writer' = r.w
    /\ stream' = [transport_write(stream, r.out) EXCEPT !.acquired = FALSE]
    /\ pc' = [t \in Tasks |->
                 IF r.resolved /\ pc[t] = "drain_waiter" THEN "drain_ready"
                 ELSE IF r.resolved /\ pc[t] = "eof_waiter" THEN "eof_ready"
                 ELSE pc[t]]
    /\ last' = Plain("other")
    /\ UNCHANGED <<log, accepted, ncalls, late>>

\* the rest of the coroutine of task t, once what it awaited is done
Returns(t) ==
    IF pc[t] \in {"eof_ready", "eof_stream"}
    THEN /\ writer' = finalize(writer)
         /\ stream' = stream_release(stream)
    ELSE UNCHANGED <<writer, stream>>

\* stream.drain() completes
StreamDrained(t) ==
    /\ UNCHANGED <<routerVars, staticVars, dictVars>>
    /\ pc[t] \in {"drain_stream", "eof_stream"}
    /\ Returns(t)
    /\ pc' = [pc EXCEPT ![t] = "idle"]
    /\ last' = Plain("other")
    /\ UNCHANGED <<log, accepted, ncalls, late>>

\* the event loop resumes a task whose waiter was resolved
Resume(t) ==
    /\ UNCHANGED <<routerVars, staticVars, dictVars>>
    /\ pc[t] \in {"drain_ready", "eof_ready"}
    /\ Returns(t)
    /\ pc' = [pc EXCEPT ![t] = "idle"]
    /\ last' = Plain("other")
    /\ UNCHANGED <<log, accepted, ncalls, late>>

\* task t is cancelled while suspended: CancelledError is thrown into the
\* coroutine at its yield from, nothing after it runs.  Cancelling a task
\* that waits on the pending waiter cancels that future, which stays in the
\* slot and fails every task waiting on it.
\* faulty variant: a cancelled write_eof still finalizes the writer
OnCancel_finalizes(w, at) ==
    IF at \in {"drain_waiter", "eof_waiter"}
    THEN [w EXCEPT !._drain_waiter = "cancelled", !._eof = (at = "eof_waiter")]
    ELSE [w EXCEPT !._eof = (at \in {"eof_stream", "eof_ready"})]

OnCancel(w, at) ==
    IF at \in {"drain_waiter", "eof_waiter"}
    THEN [w EXCEPT !._drain_waiter = "cancelled"] ELSE w

Cancel(t) ==
    /\ UNCHANGED <<routerVars, staticVars, dictVars>>
    /\ pc[t] \in Suspended
    /\ writer' = OnCancel(writer, pc[t])
    /\ pc' = [u \in Tasks |->
                 IF u = t \/ (pc[t] \in {"drain_waiter", "eof_waiter"}
                              /\ pc[u] \in {"drain_waiter", "eof_waiter"})
                 THEN "idle" ELSE pc[u]]
    /\ last' = Plain("cancel")
    /\ UNCHANGED <<stream, log, accepted, ncalls, late>>

Next ==
    \/ EnableChunking
    \/ EnableCompression
    \/ SetLength
    \/ \E t \in Tasks : BufferData(t)
    \/ \E t \in Tasks : Write(t)
    \/ \E t \in Tasks : AwaitDrain(t)
    \/ \E t \in Tasks : DropDrain(t)
    \/ \E t \in Tasks : Drain(t)
    \/ \E t \in Tasks : WriteEof(t)
    \/ SetTransport
    \/ \E t \in Tasks : StreamDrained(t)
    \/ \E t \in Tasks : Resume(t)
    \/ \E t \in Tasks : Cancel(t)

Spec == Init /\ [][Next]_vars

-----------------------------------------------------------------------------
(* Properties of the PayloadWriter *)

Min(a, b) == IF a < b THEN a ELSE b

IsSuffix(s, t) == Len(s) <= Len(t) /\ SubSeq(t, Len(t) - Len(s) + 1, Len(t)) = s

\* a is b with some elements left out
RECURSIVE IsSubseq(_, _)
IsSubseq(a, b) ==
    IF a = <<>> THEN TRUE
    ELSE IF b = <<>> THEN FALSE
    ELSE IF Head(a) = Head(b) THEN IsSubseq(Tail(a), Tail(b))
    ELSE IsSubseq(a, Tail(b))

\* index of the first write_eof call in the log (0: none)
FirstEof ==
    IF EofCalled
    THEN CHOOSE i \in 1..Len(log) :
            /\ log[i].op = "write_eof"
            /\ \A j \in 1..(i - 1) : log[j].op # "write_eof"
    ELSE 0

\* the calls made before the first write_eof call
BeforeEof == IF EofCalled THEN SubSeq(log, 1, FirstEof - 1) ELSE log

\* concatenation of the chunks passed to write(), in call order
RECURSIVE Written(_)
Written(l) ==
    IF l = <<>> THEN <<>>
    ELSE (IF Head(l).op = "write" THEN Head(l).chunk ELSE <<>>)
         \o Written(Tail(l))

\* the header block passed to buffer_data()
RECURSIVE Buffered(_)
Buffered(l) ==
    IF l = <<>> THEN <<>>
    ELSE (IF Head(l).op = "buffer_data" THEN Head(l).chunk ELSE <<>>)
         \o Buffered(Tail(l))

\* the wire format of chunked encoding: <hex-size>\r\n<payload>\r\n for
\* every non-empty chunk written, nothing for an empty one
RECURSIVE ChunkedWire(_)
ChunkedWire(l) ==
    IF l = <<>> THEN <<>>
    ELSE LET e == Head(l) IN
         (IF e.op = "write" /\ e.chunk # <<>>
          THEN Hex(Len(e.chunk)) \o <<"\r", "\n">> \o e.chunk \o <<"\r", "\n">>
          ELSE IF e.op = "buffer_data" THEN e.chunk
          ELSE <<>>)
         \o ChunkedWire(Tail(l))

InEof(t) == pc[t] \in {"eof_waiter", "eof_stream", "eof_ready"}
OnWaiter(t) == pc[t] \in {"drain_waiter", "eof_waiter"}
IsReady(t) == pc[t] \in {"drain_ready", "eof_ready"}

\* C1 as stated: in every interleaving of write, drain, set_transport and
\* write_eof the bytes handed to the transport are a prefix of the bytes
\* accepted, in call order, and are all of them once write_eof has completed.
C1_OrderedInEveryInterleaving ==
    /\ IsPrefix(stream.wire, accepted)
    /\ writer._eof => stream.wire = accepted

\* C1 (amended): as long as no write, drain or write_eof runs on the writer
\* after write_eof has been called, the bytes handed to the transport are a
\* prefix of the bytes accepted, in call order, whenever the transport is
\* attached, and are all of them once write_eof has completed.
C1_OrderedUntilEof ==
    ~late => /\ IsPrefix(stream.wire, accepted)
             /\ writer._eof => stream.wire = accepted

\* two body chunks were queued, the transport was attached while write_eof
\* was waiting for it, and everything reached the wire
C1_Witness ==
    /\ ~late
    /\ \E t \in Tasks : pc[t] = "eof_ready"
    /\ Len(log) = 3 /\ log[1].op = "write" /\ log[2].op = "write"
    /\ log[1].chunk # <<>> /\ log[2].chunk # <<>>
    /\ stream.wire = accepted

\* C2: chunking on, no compression, no length budget: writes c1..cn followed
\* by write_eof() put on the wire hex(len(ci)) CRLF ci CRLF for every
\* non-empty ci, in order, nothing for an empty ci, and then one 0 CRLF CRLF.
C2_ChunkedWire ==
    (/\ writer.chunked /\ ~writer._compress.on /\ writer.length = NoLength
     /\ ~late /\ writer._eof
     /\ log[FirstEof].chunk = <<>>)
    => stream.wire = ChunkedWire(BeforeEof) \o <<"0", "\r", "\n", "\r", "\n">>

\* write(b"hi") then write_eof() gave exactly 2\r\nhi\r\n0\r\n\r\n
C2_Witness ==
    /\ writer.chunked /\ writer._eof /\ ~late
    /\ log = <<[op |-> "write", chunk |-> Hi], [op |-> "write_eof", chunk |-> <<>>]>>
    /\ stream.wire = <<"2", "\r", "\n", "h", "i", "\r", "\n",
                       "0", "\r", "\n", "\r", "\n">>

\* C3: with a length budget L the payload accepted from write() calls is the
\* first L bytes of what was written, the budget is L minus that, never
\* negative, never growing, and a write made at budget zero emits nothing
\* and returns the completed signal (a write made once write_eof has flushed
\* the compressor is no write in a sequence of writes: compress() raises).
C3_State ==
    (writer.length # NoLength /\ ~writer._compress.on /\ ~EofCalled)
    => LET all == Written(log)
           kept == Take(all, Min(MaxLength, Len(all)))
       IN  /\ writer.length = MaxLength - Len(kept)
           /\ writer.length >= 0
           /\ ~writer.chunked => accepted = Buffered(log) \o kept

C3_Step ==
    /\ (writer.length # NoLength) => /\ writer'.length # NoLength
                                     /\ writer'.length <= writer.length
                                     /\ writer'.length >= 0
    /\ (writer.length = 0 /\ ~ZFinished(writer) /\ log' # log /\ last'.op = "write")
       => /\ last'.ret = "noop"
          /\ accepted' = accepted
          /\ stream'.wire = stream.wire
          /\ writer'._buffer = writer._buffer

C3_LengthBudget == []C3_State /\ [][C3_Step]_vars

\* budget 3, write(b"hello"): only b"hel" is emitted
C3_Witness ==
    /\ log = <<[op |-> "write", chunk |-> Hello]>>
    /\ ~writer.chunked /\ ~writer._compress.on
    /\ writer.length = 0
    /\ accepted = <<"h", "e", "l">>
    /\ writer._transport # "None" /\ stream.wire = <<"h", "e", "l">>

\* a write_eof call is made in this step
EofCallStep ==
    \E c \in EofChunks : log' = Append(log, [op |-> "write_eof", chunk |-> c])

\* C4: a write_eof call made once the writer is finalized changes nothing:
\* no byte emitted or buffered, no stream.drain, no stream.release, no task
\* suspended, the writer's fields as they were.
C4_EofIdempotent ==
    [][(writer._eof /\ EofCallStep)
       => UNCHANGED <<writer, stream, pc, accepted>>]_vars

\* write_eof was called again after it had completed
C4_Witness ==
    /\ ~late /\ writer._eof /\ stream.released = 1
    /\ Len(log) >= 2
    /\ log[Len(log)].op = "write_eof" /\ log[Len(log) - 1].op = "write_eof"
    /\ log[Len(log)].chunk # <<>>

\* C5: write_eof buffers the trailing bytes and suspends in the drain,
\* whatever buffer_size is, without finalizing; the writer is finalized only
\* by a task that comes out of that drain, which then clears the transport
\* reference and releases the stream, and by then every accepted byte has
\* been handed to the transport.
C5_Step ==
    /\ (~writer._eof /\ EofCallStep)
       => /\ ~writer'._eof
          /\ stream'.released = stream.released
          /\ IsSuffix(SubSeq(accepted', Len(accepted) + 1, Len(accepted')),
                      Flatten(writer'._buffer))
          /\ \/ \E t \in Tasks : pc[t] = "idle" /\ InEof(t)'
             \/ last'.op = "raise"
    /\ (~writer._eof /\ writer'._eof)
       => /\ \E t \in Tasks : pc[t] \in {"eof_stream", "eof_ready"}
                              /\ pc'[t] = "idle"
          /\ IsSubseq(accepted, stream.wire)
          /\ stream'.wire = stream.wire
          /\ writer'._transport = "None"
          /\ stream'.released = stream.released + 1

C5_FinalizeOrder == [][C5_Step]_vars

\* a write_eof with trailing bytes completed with less than the threshold
\* ever buffered: the drain was forced and the bytes are on the wire
C5_Witness ==
    /\ writer._eof /\ stream.released = 1 /\ ~late
    /\ writer.output_size <= SmallLimit /\ writer.output_size > 0
    /\ stream.drains = 1
    /\ log[Len(log)] = [op |-> "write_eof", chunk |-> Hi]
    /\ stream.wire = accepted

\* C6: a task waits on the drain waiter only while no transport is attached;
\* the waiter is resolved only by set_transport, in the step in which the
\* queue is written to the new transport and emptied and the waiter slot
\* cleared, so it cannot be resolved again; a waiting task leaves the waiter
\* only that way or by cancellation.
C6_State ==
    /\ writer._drain_waiter = "pending" => writer._transport = "None"
    /\ \A t \in Tasks : OnWaiter(t) => writer._drain_waiter = "pending"

C6_Step ==
    \A t \in Tasks :
        /\ (OnWaiter(t) /\ pc'[t] # pc[t])
           => \/ IsReady(t)'
              \/ last'.op = "cancel" /\ pc'[t] = "idle"
        /\ (~IsReady(t) /\ IsReady(t)')
           => /\ OnWaiter(t)
              /\ writer._drain_waiter = "pending"
              /\ writer'._drain_waiter = "None"
              /\ writer._transport = "None" /\ writer'._transport # "None"
              /\ stream'.wire = stream.wire \o Flatten(writer._buffer)
              /\ writer'._buffer = <<>>

C6_WaiterResolvedBySetTransport == []C6_State /\ [][C6_Step]_vars

\* a drain that waited for the transport was resumed after the queued bytes
\* were flushed
C6_Witness ==
    /\ \E t \in Tasks : pc[t] = "drain_ready"
    /\ stream.wire # <<>> /\ stream.wire = accepted
    /\ writer._drain_waiter = "None"

\* C7 as stated: write returns the drain signal exactly when buffer_size is
\* above the threshold and draining is allowed.
C7_DrainIffOverThreshold ==
    last.op = "write" =>
        (last.ret = "drain" <=> (last.size > last.limit /\ last.drain))

\* C7 (amended): write returns the drain signal, with buffer_size reset to
\* zero, exactly when it passed a non-empty chunk on to the buffer and
\* buffer_size, counted after framing, is then above the threshold and
\* draining is allowed; in every other case it returns the completed signal
\* and the caller is not suspended.
C7_DrainIffWroteOverThreshold ==
    last.op = "write" =>
        /\ last.ret = "drain" <=>
              (last.wrote /\ last.size > last.limit /\ last.drain)
        /\ last.ret = "drain" => writer.buffer_size = 0
        /\ last.ret = "noop" => /\ writer.buffer_size = last.size
                                /\ pc[last.task] = "idle"

\* a write went over the threshold and returned the drain signal
C7_Witness ==
    /\ last.op = "write" /\ last.ret = "drain" /\ last.drain
    /\ last.size > last.limit
    /\ writer.buffer_size = 0
    /\ pc[last.task] = "write_ret"

\* C8: cancelling a task suspended in write_eof's drain ends that call
\* without finalizing: _eof, the transport reference and the stream's
\* release count stay as they were.
C8_CancelledEofNotReleased ==
    [][(last'.op = "cancel" /\ \E t \in Tasks : InEof(t) /\ pc'[t] = "idle")
       => /\ writer'._eof = writer._eof
          /\ writer'._transport = writer._transport
          /\ stream'.released = stream.released]_vars

\* write_eof was cancelled in stream.drain(): the writer still holds the
\* transport and the stream was not released
C8_Witness ==
    /\ last.op = "cancel"
    /\ log # <<>> /\ log[Len(log)].op = "write_eof"
    /\ \A t \in Tasks : pc[t] = "idle"
    /\ ~writer._eof /\ writer._transport # "None" /\ stream.released = 0

\* how many times sub occurs in s
Occurrences(sub, s) ==
    Cardinality({i \in 1..(Len(s) - Len(sub) + 1) :
                    SubSeq(s, i, i + Len(sub) - 1) = sub})

\* C26 as stated: when write_eof calls overlap the writer is still finalized
\* once: stream.release() is called once and the chunked terminator reaches
\* the transport once.
C26_FinalizedOnce ==
    /\ stream.released <= 1
    /\ (writer.chunked /\ \A t \in Tasks : InEof(t))
       => Occurrences(Terminator, stream.wire) <= 1

\* task t is suspended on a future that is no longer in the waiter slot
Replaced(t) == pc[t] \in {"drain_replaced", "eof_replaced"}

\* C27: without a transport every task suspended in a drain awaits the one
\* future in the waiter slot, which is pending (no second unresolved waiter
\* exists); a drain called while that future is pending joins it and leaves
\* the slot as it was; the step that attaches the transport resolves the
\* future for all the tasks awaiting it and empties the slot, which stays
\* empty while the transport is attached.
C27_State ==
    /\ \A t \in Tasks : ~Replaced(t)
    /\ \A t \in Tasks : OnWaiter(t) => /\ writer._drain_waiter = "pending"
                                       /\ writer._transport = "None"
    /\ writer._transport # "None" => writer._drain_waiter = "None"

C27_Step ==
    /\ (writer._drain_waiter = "pending"
        /\ \E t \in Tasks : ~OnWaiter(t) /\ OnWaiter(t)')
       => /\ writer'._drain_waiter = "pending"
          /\ \A u \in Tasks : OnWaiter(u) => OnWaiter(u)'
    /\ (writer._transport = "None" /\ writer'._transport # "None")
       => /\ \A t \in Tasks : OnWaiter(t) => IsReady(t)'
          /\ \A t \in Tasks : ~OnWaiter(t)'
          /\ writer'._drain_waiter = "None"

C27_SingleDrainWaiter == []C27_State /\ [][C27_Step]_vars

\* two drains waited on the same future and one set_transport resumed both
C27_Witness ==
    /\ \A t \in Tasks : pc[t] = "drain_ready"
    /\ writer._transport # "None" /\ writer._drain_waiter = "None"
    /\ log = <<[op |-> "drain", chunk |-> <<>>],
               [op |-> "drain", chunk |-> <<>>]>>

\* task t makes a write call in this step, or awaits or drops the drain
\* coroutine that its write call returned
WriteStep(t) ==
    \/ log' # log /\ last'.op = "write" /\ last'.task = t
    \/ pc[t] = "write_ret" /\ pc'[t] # "write_ret"

\* C28: on a finalized writer a write call, and the drain it may return,
\* hand nothing to the transport, call neither stream.acquire nor
\* stream.release nor stream.drain, and leave the writer finalized with no
\* transport reference.
C28_WriteAfterFinalize ==
    [][\A t \in Tasks :
          (writer._eof /\ WriteStep(t))
          => /\ stream' = stream
             /\ writer'._eof
             /\ writer'._transport = "None"]_vars

\* write(b"hi") after a completed write_eof: the chunk was queued, the wire
\* and the stream are as write_eof left them
C28_Witness ==
    /\ log = <<[op |-> "write_eof", chunk |-> <<>>],
               [op |-> "write", chunk |-> Hi]>>
    /\ writer._eof /\ last.op = "write" /\ last.wrote
    /\ writer._buffer # <<>> /\ stream.wire = <<>>
    /\ stream.released = 1 /\ ~stream.acquired

\* C29: with chunking on, once write_eof has completed (no call having been
\* made on the writer after write_eof was called) the bytes handed to the
\* transport end with 0 CRLF CRLF; with compression on the compressor is
\* finished and holds nothing, and the terminator follows a chunk whose
\* payload ends with the end-of-stream marker, the last thing flush() emits.
C29_ChunkedTerminator ==
    (writer.chunked /\ writer._eof /\ ~late)
    => /\ IsSuffix(Terminator, stream.wire)
       /\ writer._compress.on
          => /\ writer._compress.finished
             /\ writer._compress.pending = <<>>
             /\ IsSuffix(<<"$">> \o CRLF \o Terminator, stream.wire)

\* write(b"hi") was held by the compressor; write_eof() flushed it into one
\* chunk followed by the terminator
C29_Witness ==
    /\ writer.chunked /\ writer._compress.on /\ writer._eof /\ ~late
    /\ log = <<[op |-> "write", chunk |-> Hi],
               [op |-> "write_eof", chunk |-> <<>>]>>
    /\ stream.wire = ChunkFrame(<<"z", "h", "i", "$">>) \o Terminator

\* C30 as stated: with a length budget L, neither chunking nor compression,
\* and no call made on the writer after write_eof was called, the body bytes
\* handed to the transport (those after the header block) are never more
\* than L, trailing bytes of write_eof included.
C30_TotalWithinBudget ==
    (/\ writer.length # NoLength /\ ~writer.chunked /\ ~writer._compress.on
     /\ ~late)
    => Len(stream.wire) <= Len(Buffered(log)) + MaxLength

\* a drain call is made in this step
DrainCallStep == log' = Append(log, [op |-> "drain", chunk |-> <<>>])

\* C31 as stated: a drain called while no transport is attached suspends
\* until set_transport, also after an earlier drain or write_eof was
\* cancelled while it waited: the call leaves its task waiting on the
\* pending waiter and does not fail at once.
C31_DrainWaitsForTransport ==
    [][(writer._transport = "None" /\ DrainCallStep)
       => /\ \E t \in Tasks : ~OnWaiter(t) /\ OnWaiter(t)'
          /\ writer'._drain_waiter = "pending"
          /\ last'.op # "raise"]_vars

-----------------------------------------------------------------------------
(* UrlDispatcher (aiohttp/web_urldispatcher.py)                             *)
(*                                                                         *)
(* A str is a sequence of one-character strings.  An optional str is a set: *)
(* {} is None and {s} is s.  A call that raises is recorded by the name of  *)
(* the exception and the start of its message; "" means it returned.       *)

\* resources one run registers at most
MaxResources == 2

Lower == {
    "a", "b", "c", "d", "e", "f", "g", "h", "i", "j", "k", "l", "m", "n",
    "o", "p", "q", "r", "s", "t", "u", "v", "w", "x", "y", "z"}
Upper == {
    "A", "B", "C", "D", "E", "F", "G", "H", "I", "J", "K", "L", "M", "N",
    "O", "P", "Q", "R", "S", "T", "U", "V", "W", "X", "Y", "Z"}
Letters == Lower \cup Upper
DecDigits == {"0", "1", "2", "3", "4", "5", "6", "7", "8", "9"}
IdentStart == Letters \cup {"_"}
IdentChar == IdentStart \cup DecDigits

Contains(s, c) == \E i \in 1..Len(s) : s[i] = c

Drop(s, n) == SubSeq(s, n + 1, Len(s))

startswith(s, prefix) == IsPrefix(prefix, s)

endswith(s, suffix) ==
    Len(suffix) <= Len(s) /\ Drop(s, Len(s) - Len(suffix)) = suffix

Largest(S) == CHOOSE x \in S : \A y \in S : y <= x

Smallest(S) == CHOOSE x \in S : \A y \in S : x <= y

\* str.isidentifier(), on ASCII text
isidentifier(s) ==
    /\ s # <<>>
    /\ s[1] \in IdentStart
    /\ \A i \in 2..Len(s) : s[i] \in IdentChar

\* keyword.kwlist
kwlist == {
    <<"F", "a", "l", "s", "e">>,
    <<"N", "o", "n", "e">>,
    <<"T", "r", "u", "e">>,
    <<"a", "n", "d">>,
    <<"a", "s">>,
    <<"a", "s", "s", "e", "r", "t">>,
    <<"b", "r", "e", "a", "k">>,
    <<"c", "l", "a", "s", "s">>,
    <<"c", "o", "n", "t", "i", "n", "u", "e">>,
    <<"d", "e", "f">>,
    <<"d", "e", "l">>,
    <<"e", "l", "i", "f">>,
    <<"e", "l", "s", "e">>,
    <<"e", "x", "c", "e", "p", "t">>,
    <<"f", "i", "n", "a", "l", "l", "y">>,
    <<"f", "o", "r">>,
    <<"f", "r", "o", "m">>,
    <<"g", "l", "o", "b", "a", "l">>,
    <<"i", "f">>,
    <<"i", "m", "p", "o", "r", "t">>,
    <<"i", "n">>,
    <<"i", "s">>,
    <<"l", "a", "m", "b", "d", "a">>,
    <<"n", "o", "n", "l", "o", "c", "a", "l">>,
    <<"n", "o", "t">>,
    <<"o", "r">>,
    <<"p", "a", "s", "s">>,
    <<"r", "a", "i", "s", "e">>,
    <<"r", "e", "t", "u", "r", "n">>,
    <<"t", "r", "y">>,
    <<"w", "h", "i", "l", "e">>,
    <<"w", "i", "t", "h">>,
    <<"y", "i", "e", "l", "d">>}

iskeyword(s) == s \in kwlist

\* NAME_SPLIT_RE.split(name): the pieces between '.', ':' and '-'
RECURSIVE NAME_SPLIT(_, _)
NAME_SPLIT(s, cur) ==
    IF s = <<>> THEN <<cur>>
    ELSE IF Head(s) \in {".", ":", "-"}
         THEN <<cur>> \o NAME_SPLIT(Tail(s), <<>>)
         ELSE NAME_SPLIT(Tail(s), Append(cur, Head(s)))

\* ROUTE_RE from position j on, after '{' and the first character of the
\* group: text without braces, then any number of one-level {...} groups,
\* then the closing '}'.  The index of that '}', or 0 when there is none.
RECURSIVE ROUTE_RE_end(_, _, _)
ROUTE_RE_end(s, j, inner) ==
    IF j > Len(s) THEN 0
    ELSE IF s[j] = "}"
         THEN IF inner THEN ROUTE_RE_end(s, j + 1, FALSE) ELSE j
    ELSE IF s[j] = "{"
         THEN IF inner THEN 0 ELSE ROUTE_RE_end(s, j + 1, TRUE)
    ELSE ROUTE_RE_end(s, j + 1, inner)

\* ROUTE_RE matched at position i: the index of its last character, or 0
ROUTE_RE_at(s, i) ==
    IF s[i] = "{" /\ i < Len(s) /\ s[i + 1] \in IdentStart
    THEN ROUTE_RE_end(s, i + 2, FALSE)
    ELSE 0

ROUTE_RE_search(s) == \E i \in 1..Len(s) : ROUTE_RE_at(s, i) > 0

\* ROUTE_RE.split(path): literal text and {...} groups alternate, the text
\* pieces may be empty
RECURSIVE ROUTE_RE_split(_, _, _)
ROUTE_RE_split(s, i, cur) ==
    IF i > Len(s) THEN <<cur>>
    ELSE LET e == ROUTE_RE_at(s, i)
         IN  IF e > 0
             THEN <<cur, SubSeq(s, i, e)>> \o ROUTE_RE_split(s, e + 1, <<>>)
             ELSE ROUTE_RE_split(s, i + 1, Append(cur, s[i]))

\* [a-zA-Z][_a-zA-Z0-9]*
IsVar(v) ==
    /\ v # <<>>
    /\ v[1] \in Letters
    /\ \A i \in 2..Len(v) : v[i] \in IdentChar

\* DYN.match(part): '{var}'
DYN(part) ==
    IF /\ Len(part) >= 3
       /\ part[1] = "{" /\ part[Len(part)] = "}"
       /\ IsVar(SubSeq(part, 2, Len(part) - 1))
    THEN [ok |-> TRUE, var |-> SubSeq(part, 2, Len(part) - 1)]
    ELSE [ok |-> FALSE, var |-> <<>>]

\* DYN_WITH_RE.match(part): '{var:re}', var ends at the first ':'
DYN_WITH_RE(part) ==
    LET colons == {k \in 1..Len(part) : part[k] = ":"}
        k == Smallest(colons)
    IN  IF /\ Len(part) >= 5
           /\ part[1] = "{" /\ part[Len(part)] = "}"
           /\ colons # {}
           /\ IsVar(SubSeq(part, 2, k - 1))
           /\ k + 1 <= Len(part) - 1
        THEN [ok |-> TRUE, var |-> SubSeq(part, 2, k - 1),
              re |-> SubSeq(part, k + 1, Len(part) - 1)]
        ELSE [ok |-> FALSE, var |-> <<>>, re |-> <<>>]

GOOD == <<"[", "^", "{", "}", "/", "]", "+">>

\* the regular expressions the model can run: GOOD and \d+; every other
\* one a template of the model carries is one re.compile rejects
DigitsRe == <<"\\", "d", "+">>

KnownRe == {GOOD, DigitsRe}

\* GOOD without the '/' in its class
InClass_with_slash(regex, c) ==
    IF regex = GOOD THEN c \notin {"{", "}"} ELSE c \in DecDigits

InClass(regex, c) ==
    IF regex = GOOD THEN c \notin {"{", "}", "/"} ELSE c \in DecDigits

\* the pieces of a pattern: re.escape(part) matches part itself, and
\* (?P<var>re) is a named group
Literal(text) == [kind |-> "lit", var |-> <<>>, text |-> text]

Group(var, regex) == [kind |-> "group", var |-> var, text |-> regex]

\* the loop of add_resource: pattern and formatter of a path template
RECURSIVE compile_parts(_)
compile_parts(parts) ==
    IF parts = <<>>
    THEN [raised |-> "", pattern |-> <<>>, formatter |-> <<>>]
    ELSE LET part == Head(parts)
             d == DYN(part)
             dr == DYN_WITH_RE(part)
             rest == compile_parts(Tail(parts))
             piece == IF d.ok THEN Group(d.var, GOOD)
                      ELSE IF dr.ok THEN Group(dr.var, dr.re)
                      ELSE Literal(part)
             text == IF d.ok THEN <<"{">> \o d.var \o <<"}">>
                     ELSE IF dr.ok THEN <<"{">> \o dr.var \o <<"}">>
                     ELSE part
         IN  IF ~d.ok /\ ~dr.ok /\ (Contains(part, "{") \/ Contains(part, "}"))
             THEN [raised |-> "ValueError: Invalid path",
                   pattern |-> <<>>, formatter |-> <<>>]
             ELSE IF rest.raised # "" THEN rest
             ELSE [raised |-> "", pattern |-> <<piece>> \o rest.pattern,
                   formatter |-> text \o rest.formatter]

\* re.compile('^' + pattern + '$') raises re.error on a bad expression and on
\* a group name used twice
re_compile_ok(pattern) ==
    /\ \A i \in 1..Len(pattern) :
          pattern[i].kind = "group" => pattern[i].text \in KnownRe
    /\ \A i, j \in 1..Len(pattern) :
          (i # j /\ pattern[i].kind = "group" /\ pattern[j].kind = "group")
              => pattern[i].var # pattern[j].var

compile_path(path) ==
    LET c == compile_parts(ROUTE_RE_split(path, 1, <<>>))
    IN  IF c.raised # "" THEN c
        ELSE IF ~re_compile_ok(c.pattern)
             THEN [raised |-> "ValueError: Bad pattern",
                   pattern |-> <<>>, formatter |-> <<>>]
             ELSE c

\* pattern.match(path) of an anchored pattern: a group takes the longest run
\* the rest of the pattern still matches after
RECURSIVE pattern_match(_, _)
pattern_match(pattern, s) ==
    IF pattern = <<>> THEN [ok |-> s = <<>>, groupdict |-> {}]
    ELSE LET e == Head(pattern)
             after(n) == pattern_match(Tail(pattern), Drop(s, n))
             fits == {n \in 1..Len(s) :
                         /\ \A i \in 1..n : InClass(e.text, s[i])
                         /\ after(n).ok}
         IN  IF e.kind = "lit"
             THEN IF startswith(s, e.text) THEN after(Len(e.text))
                  ELSE [ok |-> FALSE, groupdict |-> {}]
             ELSE IF fits = {} THEN [ok |-> FALSE, groupdict |-> {}]
             ELSE [ok |-> TRUE,
                   groupdict |-> {[key |-> e.var,
                                   value |-> Take(s, Largest(fits))]}
                                 \cup after(Largest(fits)).groupdict]

\* the %XX escapes the request paths of the model use
Escapes ==
    (<<"2", "F">> :> "/") @@ (<<"2", "f">> :> "/") @@ (<<"4", "1">> :> "A")

\* urllib.parse.unquote: %XX becomes the character it encodes, the rest stays
RECURSIVE unquote(_)
unquote(s) ==
    IF s = <<>> THEN <<>>
    ELSE IF s[1] = "%" /\ Len(s) >= 3 /\ <<s[2], s[3]>> \in DOMAIN Escapes
         THEN <<Escapes[<<s[2], s[3]>>]>> \o unquote(Drop(s, 3))
         ELSE <<s[1]>> \o unquote(Tail(s))

PlainResource(id, path, name) ==
    [id |-> id, cls |-> "PlainResource", name |-> name, _path |-> path,
     _pattern |-> <<>>, _formatter |-> <<>>]

DynamicResource(id, pattern, formatter, name) ==
    [id |-> id, cls |-> "DynamicResource", name |-> name, _path |-> <<>>,
     _pattern |-> pattern, _formatter |-> formatter]

\* what StaticRoute hands to Route.__init__ as the resource: its name
NameObject(name) ==
    [id |-> 0, cls |-> IF name = {} THEN "NoneType" ELSE "str", name |-> {},
     _path |-> <<>>, _pattern |-> <<>>, _formatter |-> <<>>]

IsResource(x) == x.cls \in {"PlainResource", "DynamicResource"}

\* resource.match(path): ok is FALSE for None
match(resource, path) ==
    IF resource.cls = "PlainResource"
    THEN [ok |-> resource._path = path, dict |-> {}]
    ELSE LET m == pattern_match(resource._pattern, path)
         IN  [ok |-> m.ok,
              dict |-> {[key |-> g.key, value |-> unquote(g.value)] :
                            g \in m.groupdict}]

NewDispatcher == [_resources |-> <<>>, _named_resources |-> {}]

\* the next resource object
NewId(r) == Len(r._resources) + 1

\* _reg_resource without the test of line 533: the entry is overwritten
_reg_resource_overwrites(r, resource) ==
    IF ~IsResource(resource) THEN [raised |-> "AssertionError", router |-> r]
    ELSE IF \E n \in resource.name :
               LET parts == NAME_SPLIT(n, <<>>)
               IN  \E i \in 1..Len(parts) :
                      ~isidentifier(parts[i]) \/ iskeyword(parts[i])
    THEN [raised |-> "ValueError: Incorrect route name", router |-> r]
    ELSE [raised |-> "",
          router |->
            [_resources |-> Append(r._resources, resource),
             _named_resources |->
                 {e \in r._named_resources : {e.key} # resource.name}
                 \cup {[key |-> n, value |-> resource] :
                           n \in resource.name}]]

_reg_resource(r, resource) ==
    IF ~IsResource(resource) THEN [raised |-> "AssertionError", router |-> r]
    ELSE IF resource.name = {}
    THEN [raised |-> "",
          router |-> [r EXCEPT !._resources = Append(@, resource)]]
    ELSE LET name == CHOOSE n \in resource.name : TRUE
             parts == NAME_SPLIT(name, <<>>)
         IN  IF \E i \in 1..Len(parts) :
                    ~isidentifier(parts[i]) \/ iskeyword(parts[i])
             THEN [raised |-> "ValueError: Incorrect route name", router |-> r]
             ELSE IF \E e \in r._named_resources : e.key = name
             THEN [raised |-> "ValueError: Duplicate", router |-> r]
             ELSE [raised |-> "",
                   router |->
                     [_resources |-> Append(r._resources, resource),
                      _named_resources |->
                          {e \in r._named_resources : e.key # name}
                          \cup {[key |-> name, value |-> resource]}]]

register_route(r, route) ==
    IF route.cls \notin {"Route", "StaticRoute"}
    THEN [raised |-> "AssertionError", router |-> r]
    ELSE _reg_resource(r, route.resource)

add_resource(r, path, name) ==
    IF ~startswith(path, <<"/">>)
    THEN [raised |-> "ValueError: path should be started with /",
          router |-> r, made |-> <<>>]
    ELSE IF ~(Contains(path, "{") \/ Contains(path, "}")
              \/ ROUTE_RE_search(path))
    THEN LET resource == PlainResource(NewId(r), path, name)
             reg == _reg_resource(r, resource)
         IN  [raised |-> reg.raised, router |-> reg.router,
              made |-> IF reg.raised = "" THEN <<resource>> ELSE <<>>]
    ELSE LET c == compile_path(path)
         IN  IF c.raised # ""
             THEN [raised |-> c.raised, router |-> r, made |-> <<>>]
             \* line 575: UrlDispatcher has no register_resource
             ELSE [raised |-> "AttributeError: register_resource",
                   router |-> r, made |-> <<>>]

\* Route.__init__
Route(method, handler, resource, expect_handler) ==
    IF expect_handler \notin {"None", "coroutine"}
    THEN [raised |-> "AssertionError", made |-> <<>>]
    ELSE [raised |-> "",
          made |-> <<[cls |-> "Route", method |-> method,
                      handler |-> handler, resource |-> resource]>>]

\* StaticRoute.__init__
StaticRoute(name, prefix, isdir, expect_handler) ==
    IF ~(startswith(prefix, <<"/">>) /\ endswith(prefix, <<"/">>))
    THEN [raised |-> "AssertionError", made |-> <<>>]
    ELSE LET route == Route("GET", "StaticRoute.handle", NameObject(name),
                            expect_handler)
         IN  IF route.raised # "" THEN route
             ELSE IF ~isdir
             THEN [raised |-> "ValueError: No directory exists",
                   made |-> <<>>]
             ELSE [raised |-> "",
                   made |-> <<[cls |-> "StaticRoute", method |-> "GET",
                               handler |-> "StaticRoute.handle",
                               resource |-> NameObject(name),
                               _prefix |-> prefix]>>]

\* StaticRoute.match(path): ok is FALSE for None
StaticRoute_match(route, path) ==
    IF ~startswith(path, route._prefix) THEN [ok |-> FALSE, dict |-> {}]
    ELSE [ok |-> TRUE,
          dict |-> {[key |-> <<"f", "i", "l", "e", "n", "a", "m", "e">>,
                     value |-> Drop(path, Len(route._prefix))]}]

METH_ANY == "*"

METHODS == {METH_ANY, "POST", "GET", "PUT", "DELETE", "PATCH", "HEAD",
            "OPTIONS"}

\* the method arguments tried, and upstr() of each
MethodInputs == {"get", "POST", "*", "BREW"}

upstr(method) == IF method = "get" THEN "GET" ELSE method

Handlers == {"handler", "not callable"}

callable(handler) == handler # "not callable"

add_route(r, method, path, handler, name, expect_handler) ==
    IF ~callable(handler)
    THEN [raised |-> "AssertionError", router |-> r, made |-> <<>>]
    ELSE IF upstr(method) \notin METHODS
    THEN [raised |-> "ValueError: is not allowed HTTP method",
          router |-> r, made |-> <<>>]
    ELSE LET res == add_resource(r, path, name)
             route == Route(upstr(method), handler, res.made[1],
                            expect_handler)
         IN  IF res.raised # "" THEN res
             ELSE [raised |-> route.raised, router |-> res.router,
                   made |-> route.made]

add_static(r, prefix, isdir, name, expect_handler) ==
    IF ~startswith(prefix, <<"/">>)
    THEN [raised |-> "AssertionError", router |-> r, made |-> <<>>]
    ELSE LET slashed == IF endswith(prefix, <<"/">>) THEN prefix
                        ELSE prefix \o <<"/">>
             route == StaticRoute(name, slashed, isdir, expect_handler)
             reg == register_route(r, route.made[1])
         IN  IF route.raised # ""
             THEN [raised |-> route.raised, router |-> r, made |-> <<>>]
             ELSE [raised |-> reg.raised, router |-> reg.router,
                   made |-> IF reg.raised = "" THEN route.made ELSE <<>>]

\* resolve without the `continue` of lines 474-475: the first resource is
\* taken whether it matches or not
resolve_scan_no_continue(resources, method, path, allowed_methods) ==
    IF resources = <<>>
    THEN [kind |-> "NotFound", allowed_methods |-> allowed_methods]
    ELSE [kind |-> "NameError: route", allowed_methods |-> allowed_methods]

\* the loop of resolve over the resources still to visit
RECURSIVE resolve_scan(_, _, _, _)
resolve_scan(resources, method, path, allowed_methods) ==
    IF resources = <<>>
    THEN [kind |-> IF allowed_methods # {} THEN "MethodNotAllowed"
                   ELSE "NotFound",
          allowed_methods |-> allowed_methods]
    ELSE IF ~match(Head(resources), path).ok
    THEN resolve_scan(Tail(resources), method, path, allowed_methods)
    \* line 477 reads `route`, a name bound nowhere in resolve or the module
    ELSE [kind |-> "NameError: route", allowed_methods |-> allowed_methods]

resolve(r, method, path) ==
    LET found == resolve_scan(r._resources, method, path, {})
    IN  [op |-> "resolve", kind |-> found.kind, method |-> method,
         path |-> path, allowed_methods |-> found.allowed_methods]

\* what a registration call left in `answer`: the call, its arguments and
\* how it ended
Outcome(op, raised, args) ==
    [op |-> op, kind |-> IF raised = "" THEN "ok" ELSE raised, args |-> args]

-----------------------------------------------------------------------------
(* Dispatcher specification *)

Templates == {<<"/", "a">>, <<"/", "u", "/", "7">>, <<"/", "u", "/", "{", "i", "d", "}">>, <<"/", "u", "/", "{", "i", "d", ":", "\\", "d", "+", "}">>,
              <<"a">>, <<"/", "u", "/", "{">>, <<"/", "{", "x", ":", "(", "}">>}

Names == {{}, {<<"n">>}, {<<"n", ".", "m", "1">>},
          {<<"b", "a", "d", " ", "n", "a", "m", "e">>}, {<<"i", "f">>},
          {<<"n", "-">>}}

ExpectHandlers == {"None", "function"}

Prefixes == {<<"/", "s", "t", "a", "t", "i", "c">>, <<"s", "t", "a", "t", "i", "c", "/">>}

RequestMethods == {"GET", "POST"}

RequestPaths == {<<"/", "a">>, <<"/", "u", "/", "7">>, <<"/", "u", "/", "%", "4", "1">>, <<"/", "b">>}

\* the add_route calls tried: the well-formed ones, and each of them with
\* one argument replaced by another of its kind
GoodRouteCall ==
    [method |-> "get", path |-> <<"/", "a">>, handler |-> "handler",
     name |-> {}, expect_handler |-> "None"]

RouteCalls ==
    {[GoodRouteCall EXCEPT !.method = m, !.name = n] :
         m \in MethodInputs, n \in Names}
    \cup {[GoodRouteCall EXCEPT !.path = t] : t \in Templates}
    \cup {[GoodRouteCall EXCEPT !.handler = h] : h \in Handlers}
    \cup {[GoodRouteCall EXCEPT !.expect_handler = e, !.name = n] :
              e \in ExpectHandlers, n \in Names}

\* the add_static calls tried, built the same way
GoodStaticCall ==
    [prefix |-> <<"/", "s", "t", "a", "t", "i", "c">>, isdir |-> TRUE,
     name |-> {}, expect_handler |-> "None"]

StaticCalls ==
    {[GoodStaticCall EXCEPT !.prefix = p] : p \in Prefixes}
    \cup {[GoodStaticCall EXCEPT !.isdir = d] : d \in BOOLEAN}
    \cup {[GoodStaticCall EXCEPT !.name = n] : n \in Names}
    \cup {[GoodStaticCall EXCEPT !.expect_handler = e] : e \in ExpectHandlers}

\* the resources a caller can build itself and hand over inside a Route
BuiltResources(r) ==
    {PlainResource(NewId(r), path, name) :
         path \in {<<"/", "a">>},
         name \in {{}, {<<"n">>}, {<<"n", ":", "i", "s">>}}}
    \cup {DynamicResource(NewId(r), compile_path(t).pattern,
                          compile_path(t).formatter, {}) :
              t \in {<<"/", "u", "/", "{", "i", "d", "}">>, <<"/", "u", "/", "{", "i", "d", ":", "\\", "d", "+", "}">>}}

WriterIdle ==
    /\ writer = NewWriter(TRUE)
    /\ stream = NewStream(TRUE)
    /\ pc = [t \in Tasks |-> "idle"]
    /\ log = <<>>
    /\ accepted = <<>>
    /\ ncalls = 0
    /\ last = Plain("other")
    /\ late = FALSE

DispatcherInit ==
    /\ WriterIdle
    /\ router = NewDispatcher
    /\ routes = <<>>
    /\ answer = [op |-> "none", kind |-> "ok"]
    /\ StaticIdle
    /\ DictIdle

Registering == Len(router._resources) < MaxResources

AddResource ==
    /\ UNCHANGED <<writerVars, staticVars, dictVars>>
    /\ Registering
    /\ \E path \in Templates, name \in Names :
         LET res == add_resource(router, path, name)
         IN  /\ router' = res.router
             /\ answer' = Outcome("add_resource", res.raised,
                                 [path |-> path, name |-> name])
    /\ UNCHANGED routes

AddRoute ==
    /\ UNCHANGED <<writerVars, staticVars, dictVars>>
    /\ Registering
    /\ \E call \in RouteCalls :
         LET res == add_route(router, call.method, call.path, call.handler,
                              call.name, call.expect_handler)
         IN  /\ router' = res.router
             /\ routes' = routes \o res.made
             /\ answer' = Outcome("add_route", res.raised, call)

AddStatic ==
    /\ UNCHANGED <<writerVars, staticVars, dictVars>>
    /\ Registering
    /\ \E call \in StaticCalls :
         LET res == add_static(router, call.prefix, call.isdir, call.name,
                               call.expect_handler)
         IN  /\ router' = res.router
             /\ routes' = routes \o res.made
             /\ answer' = Outcome("add_static", res.raised, call)

\* register_route with a Route the caller built over its own resource, or
\* with one add_route returned before
RegisterRoute ==
    /\ UNCHANGED <<writerVars, staticVars, dictVars>>
    /\ Registering
    /\ \/ \E method \in {"GET", METH_ANY}, resource \in BuiltResources(router) :
            LET route == Route(method, "handler", resource, "None").made[1]
                reg == register_route(router, route)
            IN  /\ router' = reg.router
                /\ routes' = IF reg.raised = "" THEN Append(routes, route)
                             ELSE routes
                /\ answer' = Outcome("register_route", reg.raised,
                                    [route |-> route])
       \/ \E k \in 1..Len(routes) :
            LET reg == register_route(router, routes[k])
            IN  /\ router' = reg.router
                /\ routes' = routes
                /\ answer' = Outcome("register_route", reg.raised,
                                    [route |-> routes[k]])

Resolve ==
    /\ UNCHANGED <<writerVars, staticVars, dictVars>>
    /\ \E method \in RequestMethods, path \in RequestPaths :
         answer' = resolve(router, method, path)
    /\ UNCHANGED <<router, routes>>

DispatcherNext ==
    \/ AddResource
    \/ AddRoute
    \/ AddStatic
    \/ RegisterRoute
    \/ Resolve

SpecDispatcher == DispatcherInit /\ [][DispatcherNext]_vars

-----------------------------------------------------------------------------
(* Properties of the UrlDispatcher *)

\* the registered resources that match the path of the resolve call just
\* made and have a route taking its method
Accepting ==
    {i \in 1..Len(router._resources) :
        /\ match(router._resources[i], answer.path).ok
        /\ \E k \in 1..Len(routes) :
              /\ routes[k].resource.id = router._resources[i].id
              /\ routes[k].method \in {answer.method, METH_ANY}}

\* C9: resolve never raises: whatever is registered and whatever the method
\* and path of the request, it returns a match, NotFound or MethodNotAllowed.
C9_ResolveNeverRaises ==
    answer.op = "resolve"
        => answer.kind \in {"match", "NotFound", "MethodNotAllowed"}

\* C10: registration order is match priority: when some registered resource
\* matches the path and its route takes the method, resolve returns the route
\* of the first such resource with the variables that resource captured.
C10_FirstMatchWins ==
    (answer.op = "resolve" /\ Accepting # {})
        => LET first == router._resources[Smallest(Accepting)]
           IN  /\ answer.kind = "match"
               /\ answer.route.resource.id = first.id
               /\ answer.route.method \in {answer.method, METH_ANY}
               /\ answer.match_dict = match(first, answer.path).dict

\* the registered resources that match the path of the resolve call just made
Matching ==
    {i \in 1..Len(router._resources) :
        match(router._resources[i], answer.path).ok}

\* the methods of the routes built over the resources in a set of positions
MethodsOf(positions) ==
    {routes[k].method : k \in {j \in 1..Len(routes) :
        \E i \in positions :
            routes[j].resource.id = router._resources[i].id}}

\* C11: when some registered resource matches the path and no route of a
\* matching resource takes the method, resolve returns MethodNotAllowed and
\* its allowed set is the set of methods of the routes of the matching
\* resources.
C11_MethodNotAllowed ==
    (/\ answer.op = "resolve"
     /\ Matching # {} /\ MethodsOf(Matching) # {} /\ Accepting = {})
        => /\ answer.kind = "MethodNotAllowed"
           /\ answer.allowed_methods = MethodsOf(Matching)

\* C12: when no registered resource matches the path, resolve returns
\* NotFound, whatever the method and whatever is registered.
C12_NotFound ==
    (answer.op = "resolve" /\ Matching = {}) => answer.kind = "NotFound"

\* a lookup that went past a plain and a dynamic resource, neither matching
C12_Witness ==
    /\ answer.op = "resolve" /\ answer.kind = "NotFound"
    /\ \E i, j \in 1..Len(router._resources) :
          /\ router._resources[i].cls = "PlainResource"
          /\ router._resources[j].cls = "DynamicResource"

\* a name is well-formed when the pieces between its '.', ':' and '-' are
\* identifiers, none of them empty and none a keyword
ValidName(n) ==
    LET cuts == {0, Len(n) + 1}
                \cup {i \in 1..Len(n) : n[i] \in {".", ":", "-"}}
        tokens == {SubSeq(n, a + 1, b - 1) : <<a, b>> \in
                      {c \in cuts \X cuts :
                          /\ c[1] < c[2]
                          /\ \A i \in cuts : ~(c[1] < i /\ i < c[2])}}
    IN  \A tok \in tokens :
           /\ Len(tok) > 0
           /\ tok[1] \in Letters \cup {"_"}
           /\ \A i \in 2..Len(tok) :
                 tok[i] \in Letters \cup DecDigits \cup {"_"}
           /\ tok \notin kwlist

IndexKeys(r) == {e.key : e \in r._named_resources}

\* the name index: valid names, one entry per name, each for a resource of
\* that name that is in the resource list
C13_State ==
    \A e \in router._named_resources :
        /\ ValidName(e.key)
        /\ e.value.name = {e.key}
        /\ \E i \in 1..Len(router._resources) : router._resources[i] = e.value
        /\ \A f \in router._named_resources : f.key = e.key => f = e

\* the resource a call hands to _reg_resource: the Route's resource for
\* register_route, a new plain resource for add_resource with a plain path
Registered(a) ==
    IF a.op = "register_route" THEN {a.args.route.resource}
    ELSE IF /\ a.op = "add_resource"
            /\ a.args.path # <<>> /\ a.args.path[1] = "/"
            /\ \A i \in 1..Len(a.args.path) : a.args.path[i] \notin {"{", "}"}
    THEN {PlainResource(Len(router._resources) + 1, a.args.path, a.args.name)}
    ELSE {}

\* registering a named resource: an ill-formed name is refused as incorrect,
\* a name of the index is refused as a duplicate, both without any change;
\* any other name is entered in the index for the resource appended
C13_Step ==
    \A res \in Registered(answer') : \A n \in res.name :
        IF ~ValidName(n)
        THEN /\ answer'.kind = "ValueError: Incorrect route name"
             /\ router' = router
        ELSE IF n \in IndexKeys(router)
        THEN /\ answer'.kind = "ValueError: Duplicate"
             /\ router' = router
        ELSE /\ answer'.kind = "ok"
             /\ router'._resources = Append(router._resources, res)
             /\ router'._named_resources =
                    router._named_resources
                    \cup {[key |-> n, value |-> res]}

\* C13: after any sequence of registration calls the names of the index are
\* unique and well-formed and each maps to one resource of the resource list;
\* registering a name already in the index fails as a duplicate, registering
\* an ill-formed name fails as incorrect.
C13_NamesUniqueAndValid == []C13_State /\ [][C13_Step]_vars

\* a duplicate was just refused while the index holds that name
C13_Witness ==
    /\ answer.op \in {"add_resource", "register_route"}
    /\ answer.kind = "ValueError: Duplicate"
    /\ router._named_resources # {}

RegistrationCalls == {"add_resource", "add_route", "add_static",
                      "register_route"}

C14_Step ==
    (answer'.op \in RegistrationCalls /\ answer'.kind # "ok")
        => router' = router

\* C14: registration is all-or-nothing: a call of add_resource, add_route,
\* add_static or register_route that fails leaves the resource list and the
\* name index as they were before the call.
C14_AllOrNothing == [][C14_Step]_vars

\* a path with at least one {var} or {var:re} group that compiles
ValidTemplate(path) ==
    /\ path # <<>> /\ path[1] = "/"
    /\ \E i \in 1..Len(path) : path[i] = "{"
    /\ compile_path(path).raised = ""

C15_Step ==
    (/\ answer'.op = "add_resource"
     /\ ValidTemplate(answer'.args.path)
     /\ \A n \in answer'.args.name :
           ValidName(n) /\ n \notin IndexKeys(router))
        => LET new == router'._resources[Len(router'._resources)]
           IN  /\ answer'.kind = "ok"
               /\ Len(router'._resources) = Len(router._resources) + 1
               /\ SubSeq(router'._resources, 1, Len(router._resources))
                      = router._resources
               /\ new.cls = "DynamicResource"
               /\ new._pattern = compile_path(answer'.args.path).pattern
               /\ new.name = answer'.args.name
               /\ \A n \in answer'.args.name :
                     [key |-> n, value |-> new] \in router'._named_resources

\* C15: add_resource with a valid path template succeeds: it appends one
\* dynamic resource, compiled from the template, to the end of the resource
\* list, and enters it in the name index when a name is given.
C15_DynamicResourceAdded == [][C15_Step]_vars

C17_Step ==
    (/\ answer'.op = "add_static"
     /\ answer'.args.isdir
     /\ answer'.args.prefix # <<>> /\ answer'.args.prefix[1] = "/"
     /\ answer'.args.expect_handler \in {"None", "coroutine"}
     /\ \A n \in answer'.args.name :
           ValidName(n) /\ n \notin IndexKeys(router))
        => /\ answer'.kind = "ok"
           /\ Len(routes') = Len(routes) + 1
           /\ routes'[Len(routes')].cls = "StaticRoute"
           /\ Len(router'._resources) = Len(router._resources) + 1

\* the static routes built so far that match the path just resolved
StaticFor(path) ==
    {k \in 1..Len(routes) :
        routes[k].cls = "StaticRoute" /\ StaticRoute_match(routes[k], path).ok}

\* C17: add_static on an existing directory succeeds and registers a static
\* route; a GET under its prefix, matched by no earlier resource, then
\* resolves to that route with filename = the path without the prefix.
C17_StaticRegistered ==
    /\ [][C17_Step]_vars
    /\ [](( /\ answer.op = "resolve" /\ answer.method = "GET"
             /\ Matching = {} /\ StaticFor(answer.path) # {})
            => /\ answer.kind = "match"
               /\ answer.route \in {routes[k] : k \in StaticFor(answer.path)}
               /\ answer.match_dict =
                     {[key |-> <<"f", "i", "l", "e", "n", "a", "m", "e">>,
                       value |-> SubSeq(answer.path,
                                        Len(answer.route._prefix) + 1,
                                        Len(answer.path))]})

-----------------------------------------------------------------------------
(* Matching of dynamic resources: the template compilation of add_resource *)
(* and DynamicResource.match, applied to templates and paths              *)

\* longest value tried for a {var} segment
MaxValueLen == 2

\* templates with one plain {var} segment: text before, variable, text after
MatchTemplates ==
    {[pre |-> pre, var |-> <<"i", "d">>, post |-> post] :
         pre \in {<<"/", "u", "s", "e", "r", "s", "/">>, <<"/">>}, post \in {<<>>, <<"/", "x">>}}

TemplateText(t) == t.pre \o <<"{">> \o t.var \o <<"}">> \o t.post

ValueChars == {"4", "2", "/", "{", "}"}

Values ==
    UNION {[1..k -> ValueChars] : k \in 0..MaxValueLen} \cup {<<"%", "4", "1">>}

MatchPaths ==
    {pre \o v \o post :
         pre \in {<<"/", "u", "s", "e", "r", "s", "/">>, <<"/", "x", "/", "u", "s", "e", "r", "s", "/">>, <<"/">>},
         v \in Values,
         post \in {<<>>, <<"/", "e", "x", "t", "r", "a">>, <<"/", "x">>}}

CompileTemplate ==
    /\ UNCHANGED <<writerVars, staticVars, dictVars, router, routes>>
    /\ \E t \in MatchTemplates :
         LET c == compile_path(TemplateText(t))
         IN  answer' = [op |-> "compiled", kind |-> "ok", template |-> t,
                        resource |-> DynamicResource(1, c.pattern,
                                                     c.formatter, {})]

MatchPath ==
    /\ UNCHANGED <<writerVars, staticVars, dictVars, router, routes>>
    /\ answer.op \in {"compiled", "matched"}
    /\ \E path \in MatchPaths :
         answer' = [op |-> "matched", kind |-> "ok",
                    template |-> answer.template,
                    resource |-> answer.resource, path |-> path,
                    result |-> match(answer.resource, path)]

MatchNext ==
    \/ CompileTemplate
    \/ MatchPath

SpecMatch == DispatcherInit /\ [][MatchNext]_vars

\* the part of the path left for the variable when the text before and
\* after the segment is taken off both ends
Middle(t, path) ==
    SubSeq(path, Len(t.pre) + 1, Len(path) - Len(t.post))

\* the path is the template with a non-empty value without '/', '{', '}' in
\* place of the segment
Fills(t, path) ==
    /\ Len(path) > Len(t.pre) + Len(t.post)
    /\ SubSeq(path, 1, Len(t.pre)) = t.pre
    /\ SubSeq(path, Len(path) - Len(t.post) + 1, Len(path)) = t.post
    /\ \A i \in 1..Len(Middle(t, path)) :
          Middle(t, path)[i] \notin {"/", "{", "}"}

\* C16: a dynamic resource compiled from a template with a plain {var}
\* segment matches a path only as a whole and only when the value of the
\* segment is non-empty and has no '/', '{' or '}'; the match yields the
\* (URL-decoded) value under the variable's name.
C16_DynamicMatch ==
    answer.op = "matched"
        => /\ answer.result.ok <=> Fills(answer.template, answer.path)
           /\ answer.result.ok =>
                 answer.result.dict =
                     {[key |-> answer.template.var,
                       value |-> unquote(Middle(answer.template,
                                                answer.path))]}
           /\ (answer.template.pre = <<"/", "u", "s", "e", "r", "s", "/">>
               /\ answer.template.post = <<>>)
                 => /\ answer.path = <<"/", "u", "s", "e", "r", "s", "/", "4", "2">>
                         => answer.result.dict =
                               {[key |-> <<"i", "d">>, value |-> <<"4", "2">>]}
                    /\ answer.path \in {<<"/", "u", "s", "e", "r", "s", "/", "4", "2", "/", "e", "x", "t", "r", "a">>, <<"/", "u", "s", "e", "r", "s", "/">>,
                                        <<"/", "x", "/", "u", "s", "e", "r", "s", "/", "4", "2">>}
                         => ~answer.result.ok

\* '/users/{id}' matched '/users/42'
C16_Witness ==
    /\ answer.op = "matched"
    /\ TemplateText(answer.template) = <<"/", "u", "s", "e", "r", "s", "/", "{", "i", "d", "}">>
    /\ answer.path = <<"/", "u", "s", "e", "r", "s", "/", "4", "2">>
    /\ answer.result.ok

-----------------------------------------------------------------------------
(* StaticRoute.handle: serving a file from a directory                     *)

MaxTime == 2        \* If-Modified-Since times tried: 0..MaxTime
MaxFileSize == 2    \* st_size of the larger file
MaxSendfile == 3    \* os.sendfile calls made in one run
ChunkSize == 1      \* chunk_size of the route

sep == <<"/">>

\* str.split(c)
RECURSIVE split(_, _)
split(s, c) ==
    IF ~Contains(s, c) THEN <<s>>
    ELSE LET i == Smallest({k \in 1..Len(s) : s[k] = c})
         IN  <<SubSeq(s, 1, i - 1)>> \o split(Drop(s, i), c)

\* c.join(comps)
RECURSIVE str_join(_, _)
str_join(c, comps) ==
    IF comps = <<>> THEN <<>>
    ELSE IF Len(comps) = 1 THEN comps[1]
    ELSE comps[1] \o <<c>> \o str_join(c, Tail(comps))

isabs(path) == startswith(path, sep)

\* os.path.join(a, b)
join(a, b) ==
    IF isabs(b) THEN b
    ELSE IF a = <<>> \/ endswith(a, sep) THEN a \o b
    ELSE a \o sep \o b

\* the loop of os.path.normpath over the components of the path
RECURSIVE new_comps(_, _, _)
new_comps(comps, acc, initial_slashes) ==
    IF comps = <<>> THEN acc
    ELSE LET comp == Head(comps)
         IN  IF comp \in {<<>>, <<".">>}
             THEN new_comps(Tail(comps), acc, initial_slashes)
             ELSE IF \/ comp # <<".", ".">>
                     \/ (initial_slashes = 0 /\ acc = <<>>)
                     \/ (acc # <<>> /\ acc[Len(acc)] = <<".", ".">>)
             THEN new_comps(Tail(comps), Append(acc, comp), initial_slashes)
             ELSE IF acc # <<>>
             THEN new_comps(Tail(comps), SubSeq(acc, 1, Len(acc) - 1),
                            initial_slashes)
             ELSE new_comps(Tail(comps), acc, initial_slashes)

\* os.path.normpath(path)
normpath(path) ==
    IF path = <<>> THEN <<".">>
    ELSE LET initial_slashes ==
                 IF ~startswith(path, sep) THEN 0
                 ELSE IF startswith(path, sep \o sep)
                         /\ ~startswith(path, sep \o sep \o sep)
                 THEN 2 ELSE 1
             joined == str_join("/", new_comps(split(path, "/"), <<>>,
                                               initial_slashes))
             result == IF initial_slashes = 2 THEN sep \o sep \o joined
                       ELSE IF initial_slashes = 1 THEN sep \o joined
                       ELSE joined
         IN  IF result = <<>> THEN <<".">> ELSE result

getcwd == <<"/", "s", "r", "v">>

\* os.path.abspath(path)
abspath(path) ==
    normpath(IF isabs(path) THEN path ELSE join(getcwd, path))

\* the file system the handler runs on; it does not change during a run
RegularFiles ==
    {<<"/", "s", "r", "v", "/", "w", "w", "w", "/", "a", ".", "t", "x", "t">>, <<"/", "s", "r", "v", "/", "w", "w", "w", "/", "e", ".", "t", "x", "t">>, <<"/", "s", "r", "v", "/", "w", "w", "w", "2", "/", "a", ".", "t", "x", "t">>,
     <<"/", "e", "t", "c", "/", "p", "a", "s", "s", "w", "d">>}

Directories ==
    {<<"/">>, <<"/", "s", "r", "v">>, <<"/", "s", "r", "v", "/", "w", "w", "w">>, <<"/", "s", "r", "v", "/", "w", "w", "w", "/", "s", "u", "b">>, <<"/", "s", "r", "v", "/", "w", "w", "w", "2">>,
     <<"/", "e", "t", "c">>}

exists(path) == path \in RegularFiles \cup Directories

isfile(path) == path \in RegularFiles

st_mtime(path) == 1

st_size(path) == IF path = <<"/", "s", "r", "v", "/", "w", "w", "w", "/", "e", ".", "t", "x", "t">> THEN 0 ELSE MaxFileSize

\* self._directory of the route: abspath(directory) + os.sep
_directory == abspath(<<"/", "s", "r", "v", "/", "w", "w", "w">>) \o sep

\* the handler is called with the request's match_info['filename'] and
\* if_modified_since (None is {}), on a route whose _sendfile is
\* _sendfile_system ("system", or "sslcontext" when the transport is
\* encrypted) or _sendfile_fallback.  grown: bytes appended to the file
\* after os.stat; blocked: sendfile calls that would have blocked or were
\* interrupted; eof: a sendfile call returned 0; tbuf: what the transport
\* was given and still holds ("H" the
\* header block, "F" a piece of the file); wire: what the socket was given
NewRun(filename, modsince, mode, grown) ==
    [pc |-> "start", filename |-> filename, modsince |-> modsince,
     mode |-> mode, filepath |-> <<>>, events |-> <<>>, outcome |-> "",
     f |-> "none", fut |-> "none", registered |-> FALSE,
     offset |-> 0, count |-> 0, chunk |-> 0, pos |-> 0, sent |-> 0,
     calls |-> 0, invalid |-> FALSE,
     grown |-> grown, blocked |-> 0, eof |-> FALSE,
     tbuf |-> <<>>, wire |-> <<>>]

effect(st, e) == [st EXCEPT !.events = Append(@, e)]

\* transport.write(data): the transport sends what it can when the socket is
\* writable and keeps the rest for later
to_transport(st, data) == [st EXCEPT !.tbuf = Append(@, data)]

\* resp.prepare(request) writes the header block
write_headers(st) == to_transport(effect(st, "headers"), "H")

\* lines 299-308 without the root check
handle_raises_any_path(filepath, modsince) ==
    IF ~exists(filepath) \/ ~isfile(filepath) THEN "HTTPNotFound"
    ELSE IF modsince # {}
            /\ \E t \in modsince : st_mtime(filepath) <= t
    THEN "HTTPNotModified"
    ELSE ""

\* lines 299-308 with a strict comparison of the times
handle_raises_strict(filepath, modsince) ==
    IF ~startswith(filepath, _directory) THEN "HTTPNotFound"
    ELSE IF ~exists(filepath) \/ ~isfile(filepath) THEN "HTTPNotFound"
    ELSE IF modsince # {}
            /\ \E t \in modsince : st_mtime(filepath) < t
    THEN "HTTPNotModified"
    ELSE ""

\* lines 299-308: what the handler raises before it builds a response
handle_raises(filepath, modsince) ==
    IF ~startswith(filepath, _directory) THEN "HTTPNotFound"
    ELSE IF ~exists(filepath) \/ ~isfile(filepath) THEN "HTTPNotFound"
    ELSE IF modsince # {}
            /\ \E t \in modsince : st_mtime(filepath) <= t
    THEN "HTTPNotModified"
    ELSE ""

\* lines 327-328 with a plain open() call in place of the with block
with_exit_leaves_open(st) == st

\* leaving the `with open(...)` block closes the file
with_exit(st) ==
    IF st.f = "open" THEN effect([st EXCEPT !.f = "closed"], "close")
    ELSE st

\* lines 330-333 with the nodelay call after the try block, not in finally
handle_exit_no_finally(st, outcome) ==
    [(IF outcome = "returned" THEN effect(st, "nodelay") ELSE st)
        EXCEPT !.pc = "done", !.outcome = outcome]

\* lines 330-333: the finally clause, then the return or the exception
handle_exit(st, outcome) ==
    [effect(st, "nodelay") EXCEPT !.pc = "done", !.outcome = outcome]

\* the handler leaves the with block and the try block
leave(st, outcome) == handle_exit(with_exit(st), outcome)

\* fobj.fobj_read(chunk_size)
fobj_read(st) ==
    LET left == st_size(st.filepath) + st.grown - st.pos
        n == IF left < ChunkSize THEN left ELSE ChunkSize
    IN  [st EXCEPT !.chunk = n, !.pos = @ + n]

\* resp.resp_write(chunk[:n])
resp_write(st, n) ==
    LET st1 == effect([st EXCEPT !.sent = @ + n], "write")
    IN  IF n > 0 THEN to_transport(st1, "F") ELSE st1

\* faulty variant: the chunk left after the loop is not written
fallback_loop_skips_last(st) ==
    IF st.chunk > 0 /\ st.count > ChunkSize
    THEN [resp_write(st, st.chunk) EXCEPT !.pc = "fallback_loop"]
    ELSE leave(st, "returned")

\* _sendfile_fallback from the loop test on, up to the next drain
fallback_loop(st) ==
    IF st.chunk > 0 /\ st.count > ChunkSize
    THEN [resp_write(st, st.chunk) EXCEPT !.pc = "fallback_loop"]
    ELSE IF st.chunk > 0
    THEN [resp_write(st, IF st.count < st.chunk THEN st.count ELSE st.chunk)
             EXCEPT !.pc = "fallback_last"]
    ELSE leave(st, "returned")

_sendfile_fallback(st) == fallback_loop(fobj_read(st))

\* what one os.sendfile(out_fd, in_fd, offset, count) call can do: it sends
\* up to count bytes, reports end of file with 0, or fails; a call for no
\* byte at all returns 0 without waiting for the socket
SendfileResults(st) ==
    IF st.f = "closed" THEN {[err |-> "OSError", n |-> 0]}
    ELSE {[err |-> "", n |-> k] : k \in 0..st.count}
         \cup {[err |-> "OSError", n |-> 0]}
         \cup (IF st.count = 0 THEN {}
               ELSE {[err |-> e, n |-> 0] :
                        e \in {"BlockingIOError", "InterruptedError"}})

\* fut.set_result / fut.set_exception
set_done(st, how) ==
    IF st.fut = "pending" THEN [st EXCEPT !.fut = how]
    ELSE [st EXCEPT !.invalid = TRUE]

\* the socket takes n bytes straight from the file
sendfile_sent(st, n) ==
    IF n > 0 THEN [st EXCEPT !.sent = @ + n, !.wire = Append(@, "F")]
    ELSE [st EXCEPT !.eof = TRUE]

\* faulty variant: a partial result registers no retry
_sendfile_cb_no_rearm(st, r, registered) ==
    LET st1 == IF registered
               THEN effect([st EXCEPT !.registered = FALSE], "remove_writer")
               ELSE st
        st2 == effect([st1 EXCEPT !.calls = @ + 1], "sendfile")
        st3 == IF r.err = "" THEN sendfile_sent(st2, r.n)
               ELSE IF r.err \in {"BlockingIOError", "InterruptedError"}
               THEN [st2 EXCEPT !.blocked = @ + 1]
               ELSE st2
        n == IF r.err = "" THEN (IF r.n = 0 THEN st.count ELSE r.n) ELSE 0
    IN  IF r.err \notin {"", "BlockingIOError", "InterruptedError"}
        THEN set_done(st3, "exception")
        ELSE IF n < st.count
        THEN IF r.err = "" THEN [st3 EXCEPT !.offset = @ + n, !.count = @ - n]
             ELSE effect([st3 EXCEPT !.registered = TRUE], "add_writer")
        ELSE set_done(st3, "result")

\* faulty variant: the registration is removed after the sendfile call
\* returned, not before it
_sendfile_cb_late_remove(st, r, registered) ==
    LET st2 == effect([st EXCEPT !.calls = @ + 1], "sendfile")
        st3 == IF r.err = "" THEN sendfile_sent(st2, r.n)
               ELSE IF r.err \in {"BlockingIOError", "InterruptedError"}
               THEN [st2 EXCEPT !.blocked = @ + 1]
               ELSE st2
        st4 == IF registered
               THEN effect([st3 EXCEPT !.registered = FALSE], "remove_writer")
               ELSE st3
        n == IF r.err = "" THEN (IF r.n = 0 THEN st.count ELSE r.n) ELSE 0
    IN  IF r.err \notin {"", "BlockingIOError", "InterruptedError"}
        THEN set_done(st3, "exception")
        ELSE IF n < st.count
        THEN effect([st4 EXCEPT !.registered = TRUE, !.offset = @ + n,
                                !.count = @ - n],
                    "add_writer")
        ELSE set_done(st4, "result")

\* faulty variant: the retry is registered with the offset it was called with
_sendfile_cb_same_offset(st, r, registered) ==
    LET st1 == IF registered
               THEN effect([st EXCEPT !.registered = FALSE], "remove_writer")
               ELSE st
        st2 == effect([st1 EXCEPT !.calls = @ + 1], "sendfile")
        st3 == IF r.err = "" THEN sendfile_sent(st2, r.n)
               ELSE IF r.err \in {"BlockingIOError", "InterruptedError"}
               THEN [st2 EXCEPT !.blocked = @ + 1]
               ELSE st2
        n == IF r.err = "" THEN (IF r.n = 0 THEN st.count ELSE r.n) ELSE 0
    IN  IF r.err \notin {"", "BlockingIOError", "InterruptedError"}
        THEN set_done(st3, "exception")
        ELSE IF n < st.count
        THEN effect([st3 EXCEPT !.registered = TRUE, !.count = @ - n],
                    "add_writer")
        ELSE set_done(st3, "result")

\* _sendfile_cb(fut, out_fd, in_fd, offset, count, loop, registered), with
\* the result r of its os.sendfile call
_sendfile_cb(st, r, registered) ==
    LET st1 == IF registered
               THEN effect([st EXCEPT !.registered = FALSE], "remove_writer")
               ELSE st
        st2 == effect([st1 EXCEPT !.calls = @ + 1], "sendfile")
        st3 == IF r.err = "" THEN sendfile_sent(st2, r.n)
               ELSE IF r.err \in {"BlockingIOError", "InterruptedError"}
               THEN [st2 EXCEPT !.blocked = @ + 1]
               ELSE st2
        n == IF r.err = "" THEN (IF r.n = 0 THEN st.count ELSE r.n) ELSE 0
    IN  IF r.err \notin {"", "BlockingIOError", "InterruptedError"}
        THEN set_done(st3, "exception")
        ELSE IF n < st.count
        THEN effect([st3 EXCEPT !.registered = TRUE, !.offset = @ + n,
                                !.count = @ - n],
                    "add_writer")
        ELSE set_done(st3, "result")

\* `yield from fut` (line 264) and what follows it in the handler
await_fut(st) ==
    IF st.fut = "result" THEN leave(st, "returned")
    ELSE IF st.fut = "exception" THEN leave(st, "OSError")
    ELSE [st EXCEPT !.pc = "fut"]

Filenames ==
    {<<"a", ".", "t", "x", "t">>, <<"e", ".", "t", "x", "t">>, <<"s", "u", "b", "/", ".", ".", "/", "a", ".", "t", "x", "t">>, <<"a", ".", "t", "x", "t", "/">>,
     <<".", ".", "/", ".", ".", "/", "e", "t", "c", "/", "p", "a", "s", "s", "w", "d">>, <<"/", "e", "t", "c", "/", "p", "a", "s", "s", "w", "d">>, <<".", ".", "/", "w", "w", "w", "2", "/", "a", ".", "t", "x", "t">>,
     <<"/", "/", "s", "r", "v", "/", "w", "w", "w", "/", "a", ".", "t", "x", "t">>, <<>>, <<"m", "i", "s", "s", "i", "n", "g", ".", "t", "x", "t">>, <<"s", "u", "b">>}

Times == 0..MaxTime

Modes == {"system", "sslcontext", "fallback"}

HandlerSuspended == {"prepare", "drain", "fut", "fallback_loop", "fallback_last"}

StaticInit ==
    /\ WriterIdle
    /\ router = NewDispatcher
    /\ routes = <<>>
    /\ answer = [op |-> "none", kind |-> "ok"]
    /\ DictIdle
    /\ static \in {NewRun(filename, modsince, mode, grown) :
                      filename \in Filenames,
                      modsince \in {{}} \cup {{t} : t \in Times},
                      mode \in Modes,
                      grown \in {0, ChunkSize}}

Idle == UNCHANGED <<writerVars, routerVars, dictVars>>

\* lines 296-325: from the call to the first suspension or exception
Handle ==
    /\ Idle
    /\ static.pc = "start"
    /\ LET filepath == abspath(join(_directory, static.filename))
           raised == handle_raises(filepath, static.modsince)
       IN  static' =
             IF raised # ""
             THEN [static EXCEPT !.pc = "done", !.outcome = raised,
                                 !.filepath = filepath]
             ELSE [effect(effect(static, "response"), "cork")
                      EXCEPT !.pc = "prepare", !.filepath = filepath,
                             !.count = st_size(filepath)]

\* resp.prepare(request) has written the headers; lines 327-328 up to the
\* first suspension of the transfer
PrepareReturns ==
    /\ Idle
    /\ static.pc = "prepare"
    /\ LET st == [effect(write_headers(static), "open")
                     EXCEPT !.f = "open"]
       IN  static' =
             IF st.mode = "system" THEN [st EXCEPT !.pc = "drain"]
             ELSE _sendfile_fallback(st)

\* resp.prepare(request) raises
PrepareRaises ==
    /\ Idle
    /\ static.pc = "prepare"
    /\ static' = leave(static, "ConnectionResetError")

\* open(filepath, 'rb') raises
OpenRaises ==
    /\ Idle
    /\ static.pc = "prepare"
    /\ static' = leave(write_headers(static), "OSError")

\* resp.drain() of _sendfile_system returns: lines 257-264
DrainReturns ==
    /\ Idle
    /\ static.pc = "drain"
    /\ \E r \in SendfileResults(static) :
         static' = await_fut(_sendfile_cb([static EXCEPT !.fut = "pending"],
                                          r, FALSE))

\* a resp.drain() of the transfer raises
DrainRaises ==
    /\ Idle
    /\ static.pc \in {"drain", "fallback_loop", "fallback_last"}
    /\ static' = leave(static, "ConnectionResetError")

\* the loop finds the socket writable and calls the registered callback
SendfileCb ==
    /\ Idle
    /\ static.pc # "idle"
    /\ static.registered
    /\ static.calls < MaxSendfile
    /\ \E r \in SendfileResults(static) :
         static' = _sendfile_cb(static, r, TRUE)

\* the future of the transfer is done and the handler goes on
FutDone ==
    /\ Idle
    /\ static.pc = "fut"
    /\ static.fut \in {"result", "exception"}
    /\ static' = await_fut(static)

\* a resp.drain() of _sendfile_fallback returns: lines 281-288
FallbackDrained ==
    /\ Idle
    /\ static.pc \in {"fallback_loop", "fallback_last"}
    /\ static' =
         IF static.pc = "fallback_loop"
         THEN fallback_loop(fobj_read([static EXCEPT !.count = @ - ChunkSize]))
         ELSE leave(static, "returned")

\* the task running the handler is cancelled while it is suspended
CancelHandler ==
    /\ Idle
    /\ static.pc \in HandlerSuspended
    /\ static' =
         leave([static EXCEPT
                   !.fut = IF static.pc = "fut" /\ @ = "pending"
                           THEN "cancelled" ELSE @],
               "CancelledError")

\* the loop finds the socket writable and the transport sends what it holds
TransportFlush ==
    /\ Idle
    /\ static.pc # "idle"
    /\ static.tbuf # <<>>
    /\ static' = [static EXCEPT !.wire = @ \o static.tbuf, !.tbuf = <<>>]

StaticNext ==
    \/ Handle
    \/ PrepareReturns
    \/ PrepareRaises
    \/ OpenRaises
    \/ DrainReturns
    \/ DrainRaises
    \/ SendfileCb
    \/ FutDone
    \/ FallbackDrained
    \/ CancelHandler
    \/ TransportFlush

SpecStatic == StaticInit /\ [][StaticNext]_vars

\* The transfer under a fair loop: the socket becomes writable again after
\* every registration, and of the sendfile calls of one transfer at most
\* MaxBlocked would block or are interrupted.
MaxBlocked == MaxSendfile - MaxFileSize

FairResults(st) ==
    {r \in SendfileResults(st) :
        r.err \in {"BlockingIOError", "InterruptedError"}
           => st.blocked < MaxBlocked}

SendfileCbFair ==
    /\ Idle
    /\ static.pc # "idle"
    /\ static.registered
    /\ static.calls < MaxSendfile
    /\ \E r \in FairResults(static) :
         static' = _sendfile_cb(static, r, TRUE)

TransferNext ==
    \/ Handle
    \/ PrepareReturns
    \/ PrepareRaises
    \/ OpenRaises
    \/ DrainReturns
    \/ DrainRaises
    \/ SendfileCbFair
    \/ FutDone
    \/ FallbackDrained
    \/ CancelHandler
    \/ TransportFlush

SpecTransfer ==
    StaticInit /\ [][TransferNext]_vars /\ WF_vars(SendfileCbFair)

\* filenames that name a regular file outside the directory, no file at
\* all, and something that is not a regular file (the directory itself and
\* a directory below it)
OutsideRoot == {<<".", ".", "/", ".", ".", "/", "e", "t", "c", "/", "p", "a", "s", "s", "w", "d">>, <<"/", "e", "t", "c", "/", "p", "a", "s", "s", "w", "d">>, <<".", ".", "/", "w", "w", "w", "2", "/", "a", ".", "t", "x", "t">>}

MissingTarget == {<<"m", "i", "s", "s", "i", "n", "g", ".", "t", "x", "t">>}

NotRegularFile == {<<"s", "u", "b">>, <<>>}

\* filenames that name a regular file under the directory
FilesUnderRoot == {<<"a", ".", "t", "x", "t">>, <<"e", ".", "t", "x", "t">>, <<"s", "u", "b", "/", ".", ".", "/", "a", ".", "t", "x", "t">>, <<"a", ".", "t", "x", "t", "/">>}

Started == static.pc \notin {"idle", "start"}

\* nothing the handler does to the response, the socket or a file has
\* happened
NoEffect ==
    /\ static.events = <<>>
    /\ static.f = "none"
    /\ static.sent = 0
    /\ ~static.registered

\* C18: for a filename that resolves outside the directory, a missing
\* target and a target that is not a regular file the handler ends the same
\* way: it raises HTTPNotFound and has not created a response, enabled
\* cork, opened a file or written a byte.
C18_UniformNotFound ==
    (Started
     /\ static.filename \in OutsideRoot \cup MissingTarget \cup NotRegularFile)
        => /\ static.pc = "done"
           /\ static.outcome = "HTTPNotFound"
           /\ NoEffect

\* '../../etc/passwd' was asked for and answered with HTTPNotFound
C18_Witness ==
    /\ static.pc = "done"
    /\ static.filename = <<".", ".", "/", ".", ".", "/", "e", "t", "c", "/", "p", "a", "s", "s", "w", "d">>
    /\ static.outcome = "HTTPNotFound"

\* the request's If-Modified-Since is at or after the file's mtime
NotModifiedSince ==
    \E t \in static.modsince : st_mtime(static.filepath) <= t

\* C19: for a regular file under the directory, an If-Modified-Since time
\* at or after the file's mtime ends the handler with HTTPNotModified and
\* without any effect (no header or body byte, no file opened, no cork or
\* nodelay call); without the header, or with an earlier time, the handler
\* builds the response and serves the file: it never raises HTTPNotFound
\* or HTTPNotModified, and when it returns the headers were written and
\* the file was opened.
C19_NotModified ==
    (Started /\ static.filename \in FilesUnderRoot)
        => IF NotModifiedSince
           THEN /\ static.pc = "done"
                /\ static.outcome = "HTTPNotModified"
                /\ NoEffect
           ELSE /\ Len(static.events) >= 2
                /\ static.events[1] = "response"
                /\ static.outcome \notin {"HTTPNotFound", "HTTPNotModified"}
                /\ static.outcome = "returned"
                     => /\ \E i \in 1..Len(static.events) :
                              static.events[i] = "headers"
                        /\ \E i \in 1..Len(static.events) :
                              static.events[i] = "open"

\* 'a.txt' was asked for with If-Modified-Since equal to its mtime
C19_Witness ==
    /\ static.pc = "done"
    /\ static.filename = <<"a", ".", "t", "x", "t">>
    /\ static.modsince = {st_mtime(static.filepath)}
    /\ static.outcome = "HTTPNotModified"

\* the positions of an effect in the run
Positions(e) == {i \in 1..Len(static.events) : static.events[i] = e}

\* C20: cork is enabled before the headers are written and before any
\* part of the body is sent, and every run of the handler that enabled
\* cork has called set_tcp_nodelay(True) after it by the time it ends,
\* however it ends (return, exception from prepare, from open or from the
\* transfer, cancellation).
C20_CorkThenNodelay ==
    Started
        => /\ \A e \in {"headers", "open", "sendfile", "write"} :
                \A i \in Positions(e) : \E j \in Positions("cork") : j < i
           /\ (static.pc = "done" /\ Positions("cork") # {})
                => \E i \in Positions("nodelay") :
                      \A j \in Positions("cork") : j < i

\* a handler that enabled cork was cancelled during the transfer
C20_Witness ==
    /\ static.pc = "done"
    /\ static.outcome = "CancelledError"
    /\ static.f = "closed"
    /\ Positions("cork") # {}
    /\ Positions("nodelay") # {}

\* C21: every run of the handler that opened the file has closed it by
\* the time it ends, whether the transfer succeeded, failed (drain or
\* sendfile error) or the handler was cancelled while it was pending.
C21_FileClosed ==
    static.pc = "done"
        => /\ static.f \in {"none", "closed"}
           /\ Positions("open") # {}
                => /\ static.f = "closed"
                   /\ \E i \in Positions("close") :
                         \A j \in Positions("open") : j < i

\* a sendfile call failed during the transfer and the handler ended with
\* that error
C21_Witness ==
    /\ static.pc = "done"
    /\ static.outcome = "OSError"
    /\ Positions("sendfile") # {}
    /\ static.f = "closed"

\* the count the transfer was started with: st.st_size
TransferCount == st_size(static.filepath)

\* _sendfile_cb runs in this step
CallbackStep == static'.calls = static.calls + 1

\* the events the step adds to the run
NewEvents ==
    SubSeq(static'.events, Len(static.events) + 1, Len(static'.events))

\* C32: while the transfer runs offset + count is the original count; a
\* call that sent n bytes, fewer than count, registers the retry at
\* offset + n with count - n; a call that would block or was interrupted
\* registers it with offset and count as they were; a call that sent the
\* whole count, or returned 0 for end of file, completes the future with
\* success and registers nothing; every retry removes the registration
\* before it calls sendfile; and a future that was not cancelled is
\* completed once, no callback being registered once it is done.
C32_State ==
    /\ static.fut # "none"
          => /\ static.offset + static.count = TransferCount
             /\ static.offset >= 0 /\ static.count >= 0
    /\ static.fut \in {"result", "exception"} => ~static.registered
    /\ static.fut # "cancelled" => ~static.invalid
    /\ static.registered => static.fut \in {"pending", "cancelled"}

C32_Step ==
    (CallbackStep /\ static.fut \in {"none", "pending"})
    => LET n == static'.sent - static.sent IN
       /\ IF static.registered
          THEN Len(NewEvents) >= 2 /\ NewEvents[1] = "remove_writer"
               /\ NewEvents[2] = "sendfile"
          ELSE NewEvents # <<>> /\ NewEvents[1] = "sendfile"
       /\ IF static'.blocked # static.blocked
          THEN /\ static'.registered /\ static'.fut = "pending"
               /\ n = 0
               /\ static'.offset = static.offset
               /\ static'.count = static.count
          ELSE IF static'.fut = "exception"
          THEN n = 0 /\ ~static'.registered
          ELSE IF n > 0 /\ n < static.count
          THEN /\ static'.registered /\ static'.fut = "pending"
               /\ static'.offset = static.offset + n
               /\ static'.count = static.count - n
          ELSE /\ n \in {0, static.count}
               /\ static'.fut = "result"
               /\ ~static'.registered

C32_Rearm == []C32_State /\ [][C32_Step]_vars

\* a partial result, a would-block result and a final result: the retries
\* removed the registration twice and the future is done with all bytes sent
C32_Witness ==
    /\ static.fut = "result" /\ static.calls = 3 /\ static.blocked = 1
    /\ static.sent = TransferCount /\ TransferCount = MaxFileSize
    /\ Cardinality(Positions("remove_writer")) = 2
    /\ static.offset + static.count = TransferCount

\* C33: the future of the transfer gets an exception only from a sendfile
\* call that failed with something other than would-block or interrupted;
\* from then on no callback is registered and no sendfile call is made; and
\* the handler, unless it is cancelled first, ends with that error, the
\* file closed and set_tcp_nodelay(True) called after the close.
C33_State ==
    static.fut = "exception"
    => /\ ~static.registered
       /\ static.pc \in {"fut", "done"}
       /\ (static.pc = "done" /\ static.outcome # "CancelledError")
             => /\ static.outcome = "OSError"
                /\ static.f = "closed"
                /\ \E i \in Positions("close") :
                      \E j \in Positions("nodelay") :
                         \A k \in Positions("sendfile") : k < i /\ i < j

C33_Step ==
    /\ (static.fut # "exception" /\ static'.fut = "exception")
          => /\ CallbackStep
             /\ static'.sent = static.sent
             /\ static'.blocked = static.blocked
    /\ static.fut = "exception"
          => /\ static'.fut = "exception"
             /\ static'.calls = static.calls
             /\ ~static'.registered

C33_SendfileFailure == []C33_State /\ [][C33_Step]_vars

\* the second sendfile call, made by the registered callback, failed
C33_Witness ==
    /\ static.fut = "exception" /\ static.calls = 2
    /\ static.pc = "done" /\ static.outcome = "OSError"
    /\ static.f = "closed" /\ ~static.registered
    /\ Positions("remove_writer") # {}

\* the handler transfers the file with _sendfile_fallback
Fallback == static.mode \in {"sslcontext", "fallback"}

\* resp.write is called in this step
WriteStep34 == Len(static'.events) > Len(static.events)
               /\ \E i \in 1..Len(NewEvents) : NewEvents[i] = "write"

\* C34: the buffered transfer of a file that holds count bytes or more
\* writes the file from its start, in order: each write carries between 1
\* and chunk_size bytes, starts where the bytes written so far end, and
\* leaves the handler suspended in a drain; the file is read again only by
\* the step that resumes from that drain; the bytes written never exceed
\* count and are exactly count when the handler returns (none for
\* count = 0, where the one write made for a file that is no longer empty
\* carries no byte).
C34_State ==
    (Fallback /\ Started)
    => /\ static.sent <= TransferCount
       /\ static.calls = 0
       /\ (static.pc = "done" /\ static.outcome = "returned")
             => static.sent = TransferCount
       /\ TransferCount = 0 => static.sent = 0

C34_Step ==
    Fallback
    => /\ WriteStep34
          => LET n == static'.sent - static.sent IN
             /\ n <= ChunkSize
             /\ n >= 1 \/ (n = 0 /\ TransferCount = 0)
             /\ static'.pos - static'.chunk = static.sent
             /\ static'.pc \in {"fallback_loop", "fallback_last"}
             /\ Cardinality({i \in 1..Len(NewEvents) :
                                NewEvents[i] = "write"}) = 1
       /\ static'.pos # static.pos
          => /\ static.pc \in {"prepare", "fallback_loop"}
             /\ static'.pos > static.pos
       /\ static'.sent # static.sent => WriteStep34

C34_FallbackTransfer == []C34_State /\ [][C34_Step]_vars

\* a file that grew after os.stat was served in MaxFileSize writes of one
\* chunk each and the handler returned
C34_Witness ==
    /\ static.mode = "fallback" /\ static.grown > 0
    /\ static.pc = "done" /\ static.outcome = "returned"
    /\ TransferCount = MaxFileSize /\ static.sent = MaxFileSize
    /\ Cardinality(Positions("write")) >= 2

\* C35 as stated: once a handler that was cancelled while it awaited the
\* transfer has closed the file, no callback of the transfer is registered
\* on the socket, no sendfile call is made, and the cancelled future is not
\* completed again.
C35_State ==
    (static.fut = "cancelled" /\ static.f = "closed")
    => ~static.registered /\ ~static.invalid

C35_Step ==
    (static.fut = "cancelled" /\ static.f = "closed")
    => static'.calls = static.calls

C35_CancelledTransferStops == []C35_State /\ [][C35_Step]_vars

\* C36 as stated: on the sendfile path the header block has reached the
\* socket before any byte of the file does; with an sslcontext on the
\* transport os.sendfile is never called.
C36_HeadersBeforeFile ==
    /\ static.mode = "system"
          => \A i \in 1..Len(static.wire) :
                static.wire[i] = "F"
                   => \E j \in 1..(i - 1) : static.wire[j] = "H"
    /\ static.mode = "sslcontext"
          => static.calls = 0 /\ Positions("sendfile") = {}

\* C37: under a fair loop a transfer whose future is pending leads to the
\* future being done: with a result, and then count bytes were sent or a
\* sendfile call reported end of file; with the exception of a failed
\* sendfile call; or cancelled with the handler.  The bound on the calls is
\* never what stops a pending transfer.
C37_Done ==
    /\ static.fut = "result" => (static.sent = TransferCount \/ static.eof)
    /\ static.fut = "pending"
          => static.registered /\ static.calls < MaxSendfile
    /\ static.fut = "cancelled" => static.outcome = "CancelledError"

C37_TransferTerminates ==
    /\ []C37_Done
    /\ (static.fut = "pending")
          ~> (static.fut \in {"result", "exception", "cancelled"})

\* the transfer took every call the bound allows and completed with all
\* bytes sent
C37_Witness ==
    /\ static.fut = "result" /\ static.calls = MaxSendfile
    /\ static.blocked = MaxBlocked
    /\ static.sent = TransferCount /\ ~static.eof

-----------------------------------------------------------------------------
(* multidict.py: the multi-value maps                                      *)

MaxItems == 3       \* pairs held by a multidict

ascii_lowercase ==
    <<"a", "b", "c", "d", "e", "f", "g", "h", "i", "j", "k", "l", "m",
      "n", "o", "p", "q", "r", "s", "t", "u", "v", "w", "x", "y", "z">>

ascii_uppercase ==
    <<"A", "B", "C", "D", "E", "F", "G", "H", "I", "J", "K", "L", "M",
      "N", "O", "P", "Q", "R", "S", "T", "U", "V", "W", "X", "Y", "Z">>

\* the upper-case letter of each lower-case ASCII letter
to_upper ==
    [c \in {ascii_lowercase[j] : j \in 1..26} |->
        ascii_uppercase[CHOOSE j \in 1..26 : ascii_lowercase[j] = c]]

\* key.upper() with the key left as it was given
upper_as_given(key) == key

\* key.upper(), on ASCII text
upper(key) ==
    [i \in 1..Len(key) |->
        IF key[i] \in DOMAIN to_upper THEN to_upper[key[i]] ELSE key[i]]

\* the Python values that are passed as defaults and returned: a str, a
\* tuple of str, a bool, None and the _marker object
Str(s) == [kind |-> "str", str |-> s, tuple |-> <<>>]
Tuple(t) == [kind |-> "tuple", str |-> "", tuple |-> t]
Bool(b) == [kind |-> "bool", str |-> IF b THEN "True" ELSE "False",
            tuple |-> <<>>]
None == [kind |-> "None", str |-> "", tuple |-> <<>>]
_marker == [kind |-> "marker", str |-> "", tuple |-> <<>>]

Returned(v) == [raised |-> "", value |-> v]
Raised(e) == [raised |-> e, value |-> None]

DictClasses ==
    {"MultiDict", "CaseInsensitiveMultiDict", "MutableMultiDict",
     "CaseInsensitiveMutableMultiDict"}

CaseInsensitive(cls) ==
    cls \in {"CaseInsensitiveMultiDict", "CaseInsensitiveMutableMultiDict"}

Mutable(cls) ==
    cls \in {"MutableMultiDict", "CaseInsensitiveMutableMultiDict"}

\* the key a method of the class hands to the method of its base class
canonical(cls, key) == IF CaseInsensitive(cls) THEN upper(key) ELSE key

\* MultiDict._fill / CaseInsensitiveMultiDict._fill
_fill(cls, items, ipairs) ==
    items \o [i \in 1..Len(ipairs) |->
                 <<canonical(cls, ipairs[i][1]), ipairs[i][2]>>]

\* cls(args, **kwargs), args a list of pairs
MultiDict(cls, args, kwargs) == _fill(cls, <<>>, args \o kwargs)

\* [v for k, v in items if k == key]
RECURSIVE values_of(_, _)
values_of(items, key) ==
    IF items = <<>> THEN <<>>
    ELSE (IF Head(items)[1] = key THEN <<Head(items)[2]>> ELSE <<>>)
         \o values_of(Tail(items), key)

\* MultiDict.getall
MultiDict_getall(items, key, default) ==
    LET res == values_of(items, key)
    IN  IF res # <<>> THEN Returned(Tuple(res))
        ELSE IF default # _marker THEN Returned(default)
        ELSE Raised("KeyError: Key not found")

getall(cls, items, key, default) ==
    MultiDict_getall(items, canonical(cls, key), default)

\* MultiDict.getone
MultiDict_getone(items, key, default) ==
    LET got == MultiDict_getall(items, key, _marker)
    IN  IF got.raised # "" THEN got
        ELSE IF Len(got.value.tuple) > 1 /\ got.value # default
        THEN Raised("KeyError: Multiple values match")
        ELSE Returned(Str(got.value.tuple[1]))

getone(cls, items, key, default) ==
    MultiDict_getone(items, canonical(cls, key), default)

\* MultiDict.__getitem__
MultiDict_getitem(items, key) ==
    IF \E i \in 1..Len(items) : items[i][1] = key
    THEN Returned(Str(items[Smallest({i \in 1..Len(items) :
                                         items[i][1] = key})][2]))
    ELSE Raised("KeyError")

getitem(cls, items, key) == MultiDict_getitem(items, canonical(cls, key))

\* MultiDict.__contains__
contains(cls, items, key) ==
    Returned(Bool(\E i \in 1..Len(items) :
                     items[i][1] = canonical(cls, key)))

\* the loop of __delitem__ with the scan stopped at the first pair found
RECURSIVE delitem_loop_first(_, _, _, _)
delitem_loop_first(items, i, key, found) ==
    IF i < 1 \/ found THEN [items |-> items, found |-> found]
    ELSE IF items[i][1] = key
    THEN delitem_loop_first(SubSeq(items, 1, i - 1)
                               \o SubSeq(items, i + 1, Len(items)),
                            i - 1, key, TRUE)
    ELSE delitem_loop_first(items, i - 1, key, found)

\* the loop of __delitem__ (lines 181-184), from index i - 1 down to 0
RECURSIVE delitem_loop(_, _, _, _)
delitem_loop(items, i, key, found) ==
    IF i < 1 THEN [items |-> items, found |-> found]
    ELSE IF items[i][1] = key
    THEN delitem_loop(SubSeq(items, 1, i - 1)
                         \o SubSeq(items, i + 1, Len(items)),
                      i - 1, key, TRUE)
    ELSE delitem_loop(items, i - 1, key, found)

\* MutableMultiDictMixin.__delitem__: the items left, and what it raised
Mixin_delitem(items, key) ==
    LET r == delitem_loop(items, Len(items), key, FALSE)
    IN  [items |-> r.items,
         raised |-> IF r.found THEN "" ELSE "KeyError"]

delitem(cls, items, key) == Mixin_delitem(items, canonical(cls, key))

\* MutableMultiDictMixin.__setitem__; `del self[key]` is the __delitem__
\* of the object's class
Mixin_setitem(cls, items, key, value) ==
    [items |-> Append(delitem(cls, items, key).items, <<key, value>>),
     raised |-> ""]

setitem(cls, items, key, value) ==
    Mixin_setitem(cls, items, canonical(cls, key), value)

\* MutableMultiDictMixin.add / CaseInsensitiveMutableMultiDict.add
add(cls, items, key, value) ==
    Append(items, <<canonical(cls, key), value>>)

\* MutableMultiDictMixin.extend(pairs, **kwargs): add() for each pair
RECURSIVE extend(_, _, _)
extend(cls, items, pairs) ==
    IF pairs = <<>> THEN items
    ELSE extend(cls, add(cls, items, Head(pairs)[1], Head(pairs)[2]),
                Tail(pairs))

\* the keys of the items, as a set
KeySet(items) == {items[i][1] : i \in 1..Len(items)}

\* the orders in which iterating over set(keys) can give the keys
Orders(S) ==
    {o \in [1..Cardinality(S) -> S] :
        \A i, j \in 1..Cardinality(S) : o[i] = o[j] => i = j}

\* _ItemsView.__init__ with the last pair of each key
_ItemsView_last(items, all, order) ==
    IF all THEN items
    ELSE [n \in 1..Len(order) |->
             items[Largest({i \in 1..Len(items) :
                                items[i][1] = order[n]})]]

\* _ItemsView.__init__: the pairs the view iterates over; order is the
\* order in which set(keys) gives the keys
_ItemsView(items, all, order) ==
    IF all THEN items
    ELSE [n \in 1..Len(order) |->
             items[Smallest({i \in 1..Len(items) :
                                 items[i][1] = order[n]})]]

DictKeys == {<<"C", "o", "n", "t", "e", "n", "t", "-", "T", "y", "p", "e">>, <<"c", "o", "n", "t", "e", "n", "t", "-", "t", "y", "p", "e">>, <<"A", "c", "c", "e", "p", "t">>}

DictValues == {"a", "b"}

Pairs == {<<k, v>> : k \in DictKeys, v \in DictValues}

\* the lists of pairs given to the constructor
PairLists ==
    {<<>>} \cup {<<p>> : p \in Pairs}
           \cup {<<p, q>> : p \in Pairs, q \in {<<<<"C", "o", "n", "t", "e", "n", "t", "-", "T", "y", "p", "e">>, "a">>,
                                                 <<<<"A", "c", "c", "e", "p", "t">>, "b">>}}

\* the lists of pairs given to extend
ExtendLists ==
    {<< >>,
     << <<<<"A", "c", "c", "e", "p", "t">>, "a">> >>,
     << <<<<"c", "o", "n", "t", "e", "n", "t", "-", "t", "y", "p", "e">>, "b">>, <<<<"C", "o", "n", "t", "e", "n", "t", "-", "T", "y", "p", "e">>, "a">> >>}

Defaults == {_marker, Str("d"), Tuple(<<"a", "b">>)}

NoCall ==
    [op |-> "init", key |-> <<>>, value |-> "", default |-> _marker,
     all |-> FALSE, before |-> <<>>, raised |-> "", result |-> None,
     view |-> <<>>]

\* a call that leaves the pairs alone, and what it returned or raised
Query(op, key, default, out) ==
    [NoCall EXCEPT !.op = op, !.key = key, !.default = default,
                   !.raised = out.raised, !.result = out.value]

\* a call that changes the pairs
Change(op, key, value, raised) ==
    [NoCall EXCEPT !.op = op, !.key = key, !.value = value,
                   !.before = multidict._items, !.raised = raised]

\* put: the pairs passed to the constructor, add and extend so far, while
\* no other call has changed the object
DictInit ==
    /\ WriterIdle
    /\ router = NewDispatcher
    /\ routes = <<>>
    /\ answer = [op |-> "none", kind |-> "ok"]
    /\ StaticIdle
    /\ \E cls \in DictClasses, args \in PairLists :
         /\ Len(args) <= MaxItems
         /\ multidict = [cls |-> cls, _items |-> MultiDict(cls, args, <<>>),
                         put |-> args, only_put |-> TRUE, call |-> NoCall]

DictIdleRest == UNCHANGED <<writerVars, routerVars, staticVars>>

Add ==
    /\ DictIdleRest
    /\ Mutable(multidict.cls)
    /\ Len(multidict._items) < MaxItems
    /\ \E key \in DictKeys, value \in DictValues :
         multidict' =
            [multidict EXCEPT
                !._items = add(multidict.cls, @, key, value),
                !.put = IF multidict.only_put
                        THEN Append(@, <<key, value>>) ELSE @,
                !.call = Change("add", key, value, "")]

Extend ==
    /\ DictIdleRest
    /\ Mutable(multidict.cls)
    /\ \E pairs \in ExtendLists :
         /\ Len(multidict._items) + Len(pairs) <= MaxItems
         /\ multidict' =
               [multidict EXCEPT
                   !._items = extend(multidict.cls, @, pairs),
                   !.put = IF multidict.only_put THEN @ \o pairs ELSE @,
                   !.call = Change("extend", <<>>, "", "")]

Clear ==
    /\ DictIdleRest
    /\ Mutable(multidict.cls)
    /\ multidict' =
          [multidict EXCEPT !._items = <<>>, !.put = <<>>,
                            !.only_put = FALSE,
                            !.call = Change("clear", <<>>, "", "")]

SetItem ==
    /\ DictIdleRest
    /\ Mutable(multidict.cls)
    /\ \E key \in DictKeys, value \in DictValues :
         LET r == setitem(multidict.cls, multidict._items, key, value)
         IN  /\ Len(r.items) <= MaxItems
             /\ multidict' =
                   [multidict EXCEPT
                       !._items = r.items, !.put = <<>>,
                       !.only_put = FALSE,
                       !.call = Change("setitem", key, value, r.raised)]

DelItem ==
    /\ DictIdleRest
    /\ Mutable(multidict.cls)
    /\ \E key \in DictKeys :
         LET r == delitem(multidict.cls, multidict._items, key)
         IN  multidict' =
                [multidict EXCEPT
                    !._items = r.items, !.put = <<>>, !.only_put = FALSE,
                    !.call = Change("delitem", key, "", r.raised)]

GetAll ==
    /\ DictIdleRest
    /\ multidict.cls # "none"
    /\ \E key \in DictKeys, default \in Defaults :
         multidict' =
            [multidict EXCEPT
                !.call = Query("getall", key, default,
                               getall(multidict.cls, multidict._items,
                                      key, default))]

GetOne ==
    /\ DictIdleRest
    /\ multidict.cls # "none"
    /\ \E key \in DictKeys, default \in Defaults :
         multidict' =
            [multidict EXCEPT
                !.call = Query("getone", key, default,
                               getone(multidict.cls, multidict._items,
                                      key, default))]

GetItem ==
    /\ DictIdleRest
    /\ multidict.cls # "none"
    /\ \E key \in DictKeys :
         multidict' =
            [multidict EXCEPT
                !.call = Query("getitem", key, _marker,
                               getitem(multidict.cls, multidict._items,
                                       key))]

ContainsKey ==
    /\ DictIdleRest
    /\ multidict.cls # "none"
    /\ \E key \in DictKeys :
         multidict' =
            [multidict EXCEPT
                !.call = Query("contains", key, _marker,
                               contains(multidict.cls, multidict._items,
                                        key))]

\* list(d.items(getall=all))
Items ==
    /\ DictIdleRest
    /\ multidict.cls # "none"
    /\ \E all \in BOOLEAN, order \in Orders(KeySet(multidict._items)) :
         multidict' =
            [multidict EXCEPT
                !.call = [Query("items", <<>>, _marker, Returned(None))
                             EXCEPT !.all = all,
                                    !.view = _ItemsView(multidict._items,
                                                        all, order)]]

DictNext ==
    \/ Add
    \/ Extend
    \/ Clear
    \/ SetItem
    \/ DelItem
    \/ GetAll
    \/ GetOne
    \/ GetItem
    \/ ContainsKey
    \/ Items

SpecMultiDict == DictInit /\ [][DictNext]_vars

\* two keys that differ at most in the case of their letters
SameIgnoringCase(a, b) ==
    /\ Len(a) = Len(b)
    /\ \A i \in 1..Len(a) :
          \/ a[i] = b[i]
          \/ \E j \in 1..26 :
                {a[i], b[i]} = {ascii_lowercase[j], ascii_uppercase[j]}

\* the pair's key is the probe key, as the class of the map compares keys
Matches(cls, stored, key) ==
    IF CaseInsensitive(cls) THEN SameIgnoringCase(stored, key)
    ELSE stored = key

\* the indices of the pairs with the key, and the pairs without it
Hits(cls, items, key) ==
    {i \in 1..Len(items) : Matches(cls, items[i][1], key)}

RECURSIVE Without(_, _, _)
Without(cls, items, key) ==
    IF items = <<>> THEN <<>>
    ELSE (IF Matches(cls, Head(items)[1], key) THEN <<>>
          ELSE <<Head(items)>>) \o Without(cls, Tail(items), key)

\* a key is stored in canonical case: it has no lower-case letter
IsCanonical(key) ==
    \A i \in 1..Len(key) : \A j \in 1..26 : key[i] # ascii_lowercase[j]

\* the pair as the map stores it: the key as given in a case-sensitive
\* map, some key of the same letters in canonical case otherwise
StoredAs(cls, stored, given) ==
    /\ stored[2] = given[2]
    /\ IF CaseInsensitive(cls)
       THEN SameIgnoringCase(stored[1], given[1]) /\ IsCanonical(stored[1])
       ELSE stored[1] = given[1]

\* C22: when pairs were put into a map only by the constructor, add and
\* extend, items(getall=True) gives exactly those pairs in insertion
\* order, duplicates included, and items(getall=False) gives one pair for
\* each distinct key, the first one put in with that key (the pairs of a
\* case-insensitive map carry their keys in canonical case).
C22_ItemsInInsertionOrder ==
    (multidict.cls # "none" /\ multidict.call.op = "items"
     /\ multidict.only_put)
        => LET view == multidict.call.view
               put == multidict.put
               cls == multidict.cls
           IN  IF multidict.call.all
               THEN /\ Len(view) = Len(put)
                    /\ \A i \in 1..Len(put) : StoredAs(cls, view[i], put[i])
                    /\ ~CaseInsensitive(cls) => view = put
               ELSE /\ \A i, j \in 1..Len(view) :
                          Matches(cls, view[i][1], view[j][1]) => i = j
                    /\ \A i \in 1..Len(put) :
                          \E n \in 1..Len(view) :
                             Matches(cls, view[n][1], put[i][1])
                    /\ \A n \in 1..Len(view) :
                          /\ Hits(cls, put, view[n][1]) # {}
                          /\ StoredAs(cls, view[n],
                                      put[Smallest(Hits(cls, put,
                                                        view[n][1]))])

\* three pairs, two of them with the same key and different values, were
\* put into a case-sensitive map and items() gave one pair for each key
C22_Witness ==
    /\ multidict.cls = "MutableMultiDict"
    /\ multidict.call.op = "items"
    /\ ~multidict.call.all
    /\ multidict.only_put
    /\ Len(multidict.put) = 3
    /\ multidict.put[1][1] = multidict.put[3][1]
    /\ multidict.put[1][2] # multidict.put[3][2]
    /\ Len(multidict.call.view) = 2

\* the result of the call made last, made with another probe key
Probe(key) ==
    LET c == multidict.call
        cls == multidict.cls
    IN  CASE c.op = "getall" -> getall(cls, multidict._items, key, c.default)
          [] c.op = "getone" -> getone(cls, multidict._items, key, c.default)
          [] c.op = "getitem" -> getitem(cls, multidict._items, key)
          [] c.op = "contains" -> contains(cls, multidict._items, key)

\* C23: every key stored in a case-insensitive map is in canonical (upper)
\* case, and lookup, containment, getall, getone, set and delete give the
\* same result, and leave the same pairs, for any two probe keys that
\* differ only in letter case; ('Content-Type', 'a') put in first is found
\* under 'content-type' with the value 'a'.
C23_CaseInsensitive ==
    (multidict.cls # "none" /\ CaseInsensitive(multidict.cls))
        => LET c == multidict.call
               cls == multidict.cls
               others == {k \in DictKeys : SameIgnoringCase(k, c.key)}
           IN  /\ \A i \in 1..Len(multidict._items) :
                     IsCanonical(multidict._items[i][1])
               /\ c.op \in {"getall", "getone", "getitem", "contains"}
                    => \A k \in others :
                          Probe(k) = [raised |-> c.raised, value |-> c.result]
               /\ c.op = "setitem"
                    => \A k \in others :
                          setitem(cls, c.before, k, c.value)
                             = [items |-> multidict._items,
                                raised |-> c.raised]
               /\ c.op = "delitem"
                    => \A k \in others :
                          delitem(cls, c.before, k)
                             = [items |-> multidict._items,
                                raised |-> c.raised]
               /\ (c.op \in {"getitem", "getone"}
                   /\ c.key = <<"c", "o", "n", "t", "e", "n", "t", "-", "t", "y", "p", "e">>
                   /\ multidict.only_put /\ multidict.put # <<>>
                   /\ multidict.put[1] = <<<<"C", "o", "n", "t", "e", "n", "t", "-", "T", "y", "p", "e">>, "a">>
                   /\ Cardinality(Hits(cls, multidict.put, c.key)) = 1)
                    => c.raised = "" /\ c.result = Str("a")

\* ('Content-Type', 'a') was put into a case-insensitive mutable map and
\* looked up as 'content-type'
C23_Witness ==
    /\ multidict.cls = "CaseInsensitiveMutableMultiDict"
    /\ multidict.call.op = "getitem"
    /\ multidict.call.key = <<"c", "o", "n", "t", "e", "n", "t", "-", "t", "y", "p", "e">>
    /\ multidict.only_put
    /\ multidict.put = << <<<<"C", "o", "n", "t", "e", "n", "t", "-", "T", "y", "p", "e">>, "a">> >>
    /\ multidict.call.result = Str("a")

\* C24: del d[key] removes every pair with the key and keeps the other
\* pairs in their order; when no pair has the key it raises KeyError and
\* leaves the pairs as they were. d[key] = value removes every pair with
\* the key and appends the one pair (key, value) at the end, and does not
\* raise when the key was absent.
C24_DeleteAndSet ==
    multidict.cls # "none"
        => LET c == multidict.call
               cls == multidict.cls
               rest == Without(cls, c.before, c.key)
           IN  /\ c.op = "delitem"
                    => IF Hits(cls, c.before, c.key) # {}
                       THEN c.raised = "" /\ multidict._items = rest
                       ELSE /\ c.raised = "KeyError"
                            /\ multidict._items = c.before
               /\ c.op = "setitem"
                    => /\ c.raised = ""
                       /\ Len(multidict._items) = Len(rest) + 1
                       /\ SubSeq(multidict._items, 1, Len(rest)) = rest
                       /\ StoredAs(cls,
                                   multidict._items[Len(multidict._items)],
                                   <<c.key, c.value>>)

\* a key held by two of three pairs was deleted
C24_Witness ==
    /\ multidict.cls = "MutableMultiDict"
    /\ multidict.call.op = "delitem"
    /\ multidict.call.raised = ""
    /\ Len(multidict.call.before) = 3
    /\ Len(multidict._items) = 1

\* C25: getone(key) returns the value when one pair has the key, raises
\* the multiple-values KeyError when more than one pair has it, and on a
\* miss raises the key-not-found KeyError unless a default was passed, in
\* which case it returns the default.
C25_GetOne ==
    (multidict.cls # "none" /\ multidict.call.op = "getone")
        => LET c == multidict.call
               hits == Hits(multidict.cls, multidict._items, c.key)
           IN  IF Cardinality(hits) = 1
               THEN /\ c.raised = ""
                    /\ \A i \in hits :
                          c.result = Str(multidict._items[i][2])
               ELSE IF Cardinality(hits) > 1
               THEN c.raised = "KeyError: Multiple values match"
               ELSE IF c.default = _marker
               THEN c.raised = "KeyError: Key not found"
               ELSE c.raised = "" /\ c.result = c.default

====
